---------------------------- MODULE Spec2Model ----------------------------
(***************************************************************************)
(* A model of the luminet_blackhole rendering core: the generalized        *)
(* Hilbert curve (plotting/gilbert.rs), the five dithers                   *)
(* (plotting/dither.rs), the flux image synthesizer (plotting/flux.rs),    *)
(* the disk sampler (blackhole.rs), the periastron solver (solvers.rs) and *)
(* the FluxRange command's inclination list (bin.rs).                      *)
(* Each component has its own specification over its own variables; the    *)
(* variables of the other components stay at their idle values.            *)
(***************************************************************************)
EXTENDS Integers, Sequences, FiniteSets, TLC

VARIABLES
    gWidth, gHeight,   \* gilbert: the grid handed to gilbert_d2xy
    gIdx,              \* gilbert: the next curve index to evaluate
    gCells             \* gilbert: gilbert_d2xy(0..gIdx-1), in index order

gvars == <<gWidth, gHeight, gIdx, gCells>>

VARIABLES
    dAlg,              \* dither: the DitherAlgorithm handed to dither()
    dBuild,            \* dither: "debug" (overflow checks on) or "release" (wrapping)
    dW, dH,            \* dither: img.width(), img.height()
    dOrig,             \* dither: the image as it was handed in (never written)
    dImg,              \* dither: the pixel buffer, row-major, mutated in place
    dPos,              \* dither: loop index i / curve_idx of the sequential dithers
    dDone,             \* dither: pixels whose parallel task has run
    dErrors,           \* dither: riemersma's `errors` history
    dMask,             \* dither: the decoded images/blue_noise.png (w = 0: none)
    dDraw,             \* dither: the i16 each pixel's task draws in `random`
    dOverflowed,       \* dither: some `*pixel += ..` left the u16 range
    dPrev,             \* dither: the buffer when the last completed iteration began
    dStatus            \* dither: "running" | "returned" | "panicked"

dvars == <<dAlg, dBuild, dW, dH, dOrig, dImg, dPos, dDone, dErrors, dMask,
           dDraw, dOverflowed, dPrev, dStatus>>

VARIABLES
    bIncls,            \* batch: the `inclinations` slice (degrees)
    bCount,            \* batch: sample_count
    bAll,              \* batch: all_samples, one [direct, ghost] per inclination done
    bMaxFlux,          \* batch: max_flux
    bRange,            \* batch: flux_range once computed (<<start, end>>), else <<>>
    bImages,           \* batch: images, each with what it was synthesized from
    bStatus            \* batch: "sampling" | "rendering" | "ok" | "panicked"

bvars == <<bIncls, bCount, bAll, bMaxFlux, bRange, bImages, bStatus>>

VARIABLES
    pMass, pRadius,    \* solver: mass and radius, in units of 10^-9
    pAlpha, pIncl,     \* solver: alpha and inclination, in degrees
    pA, pB,            \* solver: periastron_a, periastron_b (10^-9)
    pSignA, pSignB,    \* solver: val_at_periastron_a/b.signum(): 1, -1, 0 (NaN)
    pSignMin, pSignMax,\* solver: val_at_min/max_periastron.signum()
    pLast,             \* solver: the last iteration: signs at a, b, c; endpoint replaced
    pNaNSeen,          \* solver: f evaluated to NaN at some point of this call
    pIter,             \* solver: iter_count
    pPeriastron,       \* solver: calc_periastron's Option<f64>
    pImpact,           \* solver: what calc_impact_parameter returns
    pStatus            \* solver: "called" | "bisecting" | "done"

pvars == <<pMass, pRadius, pAlpha, pIncl, pA, pB, pSignA, pSignB, pSignMin,
           pSignMax, pLast, pNaNSeen, pIter, pPeriastron, pImpact, pStatus>>

VARIABLES
    sMass, sOuterEdge, \* sampler: BlackHole.mass and BlackHole.disk_outer_edge
    sIncl, sNum,       \* sampler: inclination (degrees), num_points
    sOrder,            \* sampler: order
    sWorkers,          \* sampler: number of threads in the pool
    sRng,              \* sampler: values drawn so far from each thread's generator
    sBy,               \* sampler: the thread that ran each task (0: not run)
    sDrawn,            \* sampler: the (radius, alpha) each task drew
    sOut,              \* sampler: the collected Vec<Sample>, by task index
    sStatus            \* sampler: "called" | "running" | "returned" | "panicked"

svars == <<sMass, sOuterEdge, sIncl, sNum, sOrder, sWorkers, sRng, sBy,
           sDrawn, sOut, sStatus>>

VARIABLES
    rDirectIn, rGhostIn, \* render: the caller's samples when the call was made
    rDirect, rGhost,     \* render: the caller's samples now (the &mut slices)
    rW, rH,              \* render: image_width, image_height
    rRangeOpt,           \* render: the flux_range argument (Option)
    rInner, rOuter,      \* render: apparent inner and outer edge radius
    rBBox,               \* render: what samples_range returned
    rRange,              \* render: flux_range after unwrap_or_else
    rImg,                \* render: img, row-major
    rTask,               \* render: what each pixel task computed
    rStatus              \* render: "called" | "rendering" | "ok" | "err" | "panicked"

rvars == <<rDirectIn, rGhostIn, rDirect, rGhost, rW, rH, rRangeOpt, rInner,
           rOuter, rBBox, rRange, rImg, rTask, rStatus>>

VARIABLES
    cStart, cEnd, cStep, \* cli: --start, --end, --step of FluxRange (f64 degrees)
    cI,                  \* cli: the loop variable `i`
    cInclinations,       \* cli: the `inclinations` Vec being built
    cStatus              \* cli: "parsed" | "listed" | "aborted"

cvars == <<cStart, cEnd, cStep, cI, cInclinations, cStatus>>

vars == <<gvars, dvars, bvars, pvars, svars, rvars, cvars>>

(***************************************************************************)
(* The values a component's variables hold while another component runs.   *)
(***************************************************************************)
GilbertIdle ==
    /\ gWidth = 0
    /\ gHeight = 0
    /\ gIdx = 0
    /\ gCells = <<>>

DitherIdle ==
    /\ dAlg = "none"
    /\ dBuild = "release"
    /\ dW = 0
    /\ dH = 0
    /\ dOrig = <<>>
    /\ dImg = <<>>
    /\ dPos = 0
    /\ dDone = {}
    /\ dErrors = <<>>
    /\ dMask = [w |-> 0, h |-> 0, px |-> <<>>]
    /\ dDraw = <<>>
    /\ dOverflowed = FALSE
    /\ dPrev = <<>>
    /\ dStatus = "idle"

BatchIdle ==
    /\ bIncls = <<>>
    /\ bCount = 0
    /\ bAll = <<>>
    /\ bMaxFlux = 0
    /\ bRange = <<>>
    /\ bImages = <<>>
    /\ bStatus = "idle"

\* Option<f64>::None, and an f64 not yet computed.
NoPeriastron == [some |-> FALSE, value |-> 0]

NoFloat == [kind |-> "unset", sq |-> <<0, 1>>]

NoIteration == [sa |-> 0, sb |-> 0, sc |-> 0, replaced |-> "none"]

SolverIdle ==
    /\ pSignMin = 0
    /\ pSignMax = 0
    /\ pLast = NoIteration
    /\ pNaNSeen = FALSE
    /\ pMass = 0
    /\ pRadius = 0
    /\ pAlpha = 0
    /\ pIncl = 0
    /\ pA = 0
    /\ pB = 0
    /\ pSignA = 0
    /\ pSignB = 0
    /\ pIter = 0
    /\ pPeriastron = NoPeriastron
    /\ pImpact = NoFloat
    /\ pStatus = "idle"

SamplerIdle ==
    /\ sMass = 0
    /\ sOuterEdge = 0
    /\ sIncl = 0
    /\ sNum = 0
    /\ sOrder = 0
    /\ sWorkers = 0
    /\ sRng = <<>>
    /\ sBy = <<>>
    /\ sDrawn = <<>>
    /\ sOut = <<>>
    /\ sStatus = "idle"

\* Option<RangeInclusive<f64>>::None, and a range not yet computed.
NoRange == [some |-> FALSE, start |-> 0, end |-> 0]

NoBBox == [empty |-> TRUE, min_x |-> 0, min_y |-> 0, max_x |-> 0, max_y |-> 0]

RenderIdle ==
    /\ rDirectIn = <<>>
    /\ rGhostIn = <<>>
    /\ rDirect = <<>>
    /\ rGhost = <<>>
    /\ rW = 0
    /\ rH = 0
    /\ rRangeOpt = NoRange
    /\ rInner = 0
    /\ rOuter = 0
    /\ rBBox = NoBBox
    /\ rRange = NoRange
    /\ rImg = <<>>
    /\ rTask = <<>>
    /\ rStatus = "idle"

\* An f64 of the command line: NaN, or a whole number of degrees.
F64(v) == [nan |-> FALSE, v |-> v]

F64NaN == [nan |-> TRUE, v |-> 0]

CliIdle ==
    /\ cStart = F64(0)
    /\ cEnd = F64(0)
    /\ cStep = F64(0)
    /\ cI = F64(0)
    /\ cInclinations = <<>>
    /\ cStatus = "idle"

NotGilbert == <<dvars, bvars, pvars, svars, rvars, cvars>>

NotDither == <<gvars, bvars, pvars, svars, rvars, cvars>>

NotBatch == <<gvars, dvars, pvars, svars, rvars, cvars>>

NotSolver == <<gvars, dvars, bvars, svars, rvars, cvars>>

NotSampler == <<gvars, dvars, bvars, pvars, rvars, cvars>>

NotRender == <<gvars, dvars, bvars, pvars, svars, cvars>>

NotCli == <<gvars, dvars, bvars, pvars, svars, rvars>>

(***************************************************************************)
(* Integer helpers.  Rust's i32 `/` truncates toward zero; TLA+'s \div     *)
(* floors, so the truncation is spelled out.                               *)
(***************************************************************************)
Abs(x) == IF x < 0 THEN -x ELSE x

TruncDiv(a, b) == IF a >= 0 THEN a \div b ELSE -((-a) \div b)

Min2(a, b) == IF a < b THEN a ELSE b

Max2(a, b) == IF a > b THEN a ELSE b

(***************************************************************************)
(* plotting/gilbert.rs                                                     *)
(***************************************************************************)
MaxGridW == 6
MaxGridH == 6

sgn_positive_only(x) == IF x > 0 THEN 1 ELSE 0

sgn(x) == IF x < 0 THEN -1 ELSE IF x = 0 THEN 0 ELSE 1

RECURSIVE gilbert_d2xy_r(_, _, _, _, _, _, _, _)
gilbert_d2xy_r(dst_idx, cur_idx, x, y, ax, ay, bx, by) ==
    LET w   == Abs(ax + ay)
        h   == Abs(bx + by)
        dax == sgn(ax)
        day == sgn(ay)
        dbx == sgn(bx)
        dby == sgn(by)
        di  == dst_idx - cur_idx
        ax2 == TruncDiv(ax, 2)
        ay2 == TruncDiv(ay, 2)
        bx2 == TruncDiv(bx, 2)
        by2 == TruncDiv(by, 2)
        w2  == Abs(ax2 + ay2)
        h2  == Abs(bx2 + by2)
    IN  IF h = 1 THEN <<x + dax * di, y + day * di>>
        ELSE IF w = 1 THEN <<x + dbx * di, y + dby * di>>
        ELSE IF 2 * w > 3 * h THEN
            \* long case: split in two parts only
            LET odd  == (w2 % 2 # 0) /\ (w > 2)
                ax2e == IF odd THEN ax2 + dax ELSE ax2
                ay2e == IF odd THEN ay2 + day ELSE ay2
                nxt  == cur_idx + Abs((ax2e + ay2e) * (bx + by))
            IN  IF cur_idx <= dst_idx /\ dst_idx < nxt
                THEN gilbert_d2xy_r(dst_idx, cur_idx, x, y, ax2e, ay2e, bx, by)
                ELSE gilbert_d2xy_r(dst_idx, nxt, x + ax2e, y + ay2e,
                                    ax - ax2e, ay - ay2e, bx, by)
        ELSE
            \* standard case: one step up, one long horizontal, one step down
            LET odd  == (h2 % 2 # 0) /\ (h > 2)
                bx2e == IF odd THEN bx2 + dbx ELSE bx2
                by2e == IF odd THEN by2 + dby ELSE by2
                nxt1 == cur_idx + Abs((bx2e + by2e) * (ax2 + ay2))
                nxt2 == nxt1 + Abs((ax + ay) * ((bx - bx2e) + (by - by2e)))
            IN  IF cur_idx <= dst_idx /\ dst_idx < nxt1
                THEN gilbert_d2xy_r(dst_idx, cur_idx, x, y, bx2e, by2e, ax2, ay2)
                ELSE IF nxt1 <= dst_idx /\ dst_idx < nxt2
                THEN gilbert_d2xy_r(dst_idx, nxt1, x + bx2e, y + by2e,
                                    ax, ay, bx - bx2e, by - by2e)
                ELSE gilbert_d2xy_r(dst_idx, nxt2,
                                    x + (ax - dax) + (bx2e - dbx),
                                    y + (ay - day) + (by2e - dby),
                                    -bx2e, -by2e, -(ax - ax2), -(ay - ay2))

gilbert_d2xy_raster(idx, width, height) == <<idx % width, idx \div width>>

gilbert_d2xy(idx, width, height) ==
    IF width >= height
    THEN gilbert_d2xy_r(idx, 0, 0, 0, width, 0, 0, height)
    ELSE gilbert_d2xy_r(idx, 0, 0, 0, 0, height, width, 0)

GilbertInit ==
    /\ CliIdle
    /\ DitherIdle
    /\ BatchIdle
    /\ SolverIdle
    /\ SamplerIdle
    /\ RenderIdle
    /\ gWidth \in 1..MaxGridW
    /\ gHeight \in 1..MaxGridH
    /\ gIdx = 0
    /\ gCells = <<>>

\* One evaluation of gilbert_d2xy, as riemersma's walk makes them: idx = 0, 1, ...
GilbertStep ==
    /\ gIdx < gWidth * gHeight
    /\ gCells' = Append(gCells, gilbert_d2xy(gIdx, gWidth, gHeight))
    /\ gIdx' = gIdx + 1
    /\ UNCHANGED <<gWidth, gHeight>>
    /\ UNCHANGED NotGilbert

GilbertNext == GilbertStep

SpecGilbert == GilbertInit /\ [][GilbertNext]_vars

(***************************************************************************)
(* C1: for every width >= 1 and height >= 1, gilbert_d2xy over             *)
(* idx = 0 .. width*height-1 is a bijection onto the grid: every returned  *)
(* (x, y) has x < width and y < height, no cell is returned for two        *)
(* different idx, and (once all indices are evaluated) every cell of the   *)
(* grid is returned.                                                       *)
(***************************************************************************)
C1_GilbertBijection ==
    /\ \A i \in 1..Len(gCells) :
          /\ gCells[i][1] \in 0..(gWidth - 1)
          /\ gCells[i][2] \in 0..(gHeight - 1)
    /\ \A i, j \in 1..Len(gCells) : gCells[i] = gCells[j] => i = j
    /\ gIdx = gWidth * gHeight =>
          \A cx \in 0..(gWidth - 1), cy \in 0..(gHeight - 1) :
              \E i \in 1..Len(gCells) : gCells[i] = <<cx, cy>>

\* A complete walk of a non-square grid with an odd side, where the curve
\* uses all three sub-blocks of the standard case.
C1_Witness ==
    /\ gWidth = 5
    /\ gHeight = 3
    /\ gIdx = gWidth * gHeight
    /\ Len(gCells) = 15

(***************************************************************************)
(* plotting/dither.rs                                                      *)
(*                                                                         *)
(* Pixels are u16.  The f64 arithmetic of the error-diffusion dithers is   *)
(* modelled on integers: x = p / 65535.0 > 0.5 is p >= 32768, and          *)
(* round(err * weight * 65535.0) is (p - col*65535) * weight / divisor     *)
(* rounded half away from zero.  For floyd_steinberg the f64 product is    *)
(* not exact, and at an exact tie (.5) the f64 result is one or the other  *)
(* neighbouring integer depending on the operands, so a tie takes either.  *)
(* A negative f64 cast `as u16` saturates to 0.                            *)
(***************************************************************************)
U16Max == 65535

MaxPixels == 4

PixelValues == {0, 32767, 32768, U16Max}

ImageSizes ==
    {<<w, h>> \in (1..MaxPixels) \X (1..MaxPixels) : w * h <= MaxPixels}

Algorithms == {"FloydSteinberg", "Atkinson", "BlueNoise", "Random", "Riemersma"}

\* Decoded blue-noise masks the file may hold: [w, h, px (row-major)].
MaskFiles ==
    { [w |-> 1, h |-> 1, px |-> <<32767>>],
      [w |-> 2, h |-> 1, px |-> <<0, U16Max>>],
      [w |-> 1, h |-> 2, px |-> <<U16Max - 1, 0>>] }

\* No decoded mask: the file is missing or corrupt, or the dither reads none.
NoMask == [w |-> 0, h |-> 0, px |-> <<>>]

\* The i16 offsets `rng.gen()` may deliver.
Offsets == <<-32768, -1, 0, 1, 32767>>

Quantize_unscaled(p) == IF p >= 32768 THEN 1 ELSE 0

\* `if x > 0.5 { 1.0 } else { 0.0 }` with x = p / 65535.0, times u16::MAX.
Quantize(p) == IF p >= 32768 THEN U16Max ELSE 0

\* The values `(err * weight * 65535.0).round() as u16` can take, err being
\* (x - col) / divisor: 0 for a non-positive error (the cast saturates).
ShareOptions(e, weight, divisor) ==
    IF e <= 0 THEN {0}
    ELSE LET num == e * weight
             lo  == num \div divisor
         IN  IF 2 * (num % divisor) = divisor
             THEN IF divisor = 16 THEN {lo, lo + 1} ELSE {lo + 1}
             ELSE IF 2 * (num % divisor) > divisor THEN {lo + 1} ELSE {lo}

AddShares_backward(img, i, offs, shares, k, debug, ovf) ==
    [img      |-> IF i >= 1
                  THEN [img EXCEPT ![i] = (img[i] + shares[1]) % (U16Max + 1)]
                  ELSE img,
     overflow |-> ovf,
     panic    |-> FALSE]

\* `if let Some(pixel) = img.get_mut(i + off) { *pixel += share }` for each
\* kernel entry in turn.  In a debug build the first overflowing `+=`
\* panics; in a release build it wraps modulo 2^16.
RECURSIVE AddShares(_, _, _, _, _, _, _)
AddShares(img, i, offs, shares, k, debug, ovf) ==
    IF k > Len(offs) THEN [img |-> img, overflow |-> ovf, panic |-> FALSE]
    ELSE LET j == i + offs[k]
         IN  IF j >= Len(img)
             THEN AddShares(img, i, offs, shares, k + 1, debug, ovf)
             ELSE LET sum == img[j + 1] + shares[k]
                  IN  IF sum > U16Max /\ debug
                      THEN [img |-> img, overflow |-> TRUE, panic |-> TRUE]
                      ELSE AddShares([img EXCEPT ![j + 1] = sum % (U16Max + 1)],
                                     i, offs, shares, k + 1, debug,
                                     ovf \/ sum > U16Max)

\* The kernel `m` of floyd_steinberg: flat offsets and weights (/16).
FsOffsets(width) == <<1, width - 1, width, width + 1>>

FsWeights == <<7, 3, 5, 1>>

\* The kernel `m` of atkinson: flat offsets, each with weight 1 (/8).
AtkinsonOffsets(width) == <<1, 2, width - 1, width, width + 1, 2 * width>>

\* What one iteration of an error-diffusion loop leaves behind.
DiffusionStep(res, col) ==
    /\ dOverflowed' = (dOverflowed \/ res.overflow)
    /\ IF res.panic
       THEN /\ dImg' = res.img
            /\ dPos' = dPos
            /\ dPrev' = dPrev
            /\ dStatus' = "panicked"
       ELSE /\ dImg' = [res.img EXCEPT ![dPos + 1] = col]
            /\ dPrev' = dImg
            /\ dPos' = dPos + 1
            /\ dStatus' = IF dPos + 1 = Len(dImg) THEN "returned" ELSE "running"
    /\ UNCHANGED <<dAlg, dBuild, dW, dH, dOrig, dDone, dErrors, dMask, dDraw>>
    /\ UNCHANGED NotDither

\* One iteration of `for i in 0..img.len()` in floyd_steinberg.
FloydSteinbergStep ==
    /\ dAlg = "FloydSteinberg"
    /\ dStatus = "running"
    /\ dPos < Len(dImg)
    /\ LET p   == dImg[dPos + 1]
           col == Quantize(p)
           e   == p - col
       IN  \E s1 \in ShareOptions(e, FsWeights[1], 16),
              s2 \in ShareOptions(e, FsWeights[2], 16),
              s3 \in ShareOptions(e, FsWeights[3], 16),
              s4 \in ShareOptions(e, FsWeights[4], 16) :
              DiffusionStep(AddShares(dImg, dPos, FsOffsets(dW), <<s1, s2, s3, s4>>,
                                      1, dBuild = "debug", FALSE), col)

\* One iteration of `for i in 0..img.len()` in atkinson.
AtkinsonStep ==
    /\ dAlg = "Atkinson"
    /\ dStatus = "running"
    /\ dPos < Len(dImg)
    /\ LET p   == dImg[dPos + 1]
           col == Quantize(p)
           e   == p - col
       IN  \E s \in ShareOptions(e, 1, 8) :
              DiffusionStep(AddShares(dImg, dPos, AtkinsonOffsets(dW),
                                      <<s, s, s, s, s, s>>,
                                      1, dBuild = "debug", FALSE), col)

\* A parallel per-pixel task has written pixel p (flat index) with value v.
PixelTaskDone_writes_next_too(p, v) ==
    /\ dImg' = [i \in 1..Len(dImg) |-> IF i \in {p + 1, p + 2} THEN v ELSE dImg[i]]
    /\ dDone' = dDone \cup {p}
    /\ dStatus' = IF dDone \cup {p} = 0..(Len(dImg) - 1) THEN "returned" ELSE "running"
    /\ UNCHANGED <<dAlg, dBuild, dW, dH, dOrig, dPos, dErrors, dMask, dDraw,
                   dOverflowed,
                   dPrev>>
    /\ UNCHANGED NotDither

\* A pixel task of a parallel dither ends: it has written v to its pixel.
PixelTaskDone(p, v) ==
    /\ dImg' = [dImg EXCEPT ![p + 1] = v]
    /\ dDone' = dDone \cup {p}
    /\ dStatus' = IF dDone \cup {p} = 0..(Len(dImg) - 1) THEN "returned" ELSE "running"
    /\ UNCHANGED <<dAlg, dBuild, dW, dH, dOrig, dPos, dErrors, dMask, dDraw,
                   dOverflowed,
                   dPrev>>
    /\ UNCHANGED NotDither

\* `.expect("can open blue noise image file")` on a missing or corrupt file.
BlueNoiseOpenFails ==
    /\ dAlg = "BlueNoise"
    /\ dStatus = "running"
    /\ dMask = NoMask
    /\ dStatus' = "panicked"
    /\ UNCHANGED <<dAlg, dBuild, dW, dH, dOrig, dImg, dPos, dDone, dErrors, dMask,
                   dDraw, dOverflowed,
                   dPrev>>
    /\ UNCHANGED NotDither

\* The closure of blue_noise for the pixel at flat index p = y * width + x.
BlueNoiseValue(pixel_value, mask, x, y) ==
    LET mask_value == mask.px[(y % mask.h) * mask.w + (x % mask.w) + 1]
    IN  IF pixel_value > mask_value THEN U16Max ELSE 0

BlueNoisePixel(p) ==
    /\ dAlg = "BlueNoise"
    /\ dStatus = "running"
    /\ dMask # NoMask
    /\ p \notin dDone
    /\ PixelTaskDone(p, BlueNoiseValue(dImg[p + 1], dMask, p % dW, p \div dW))

\* u16::saturating_add_signed
SaturatingAddSignedU16(v, off) == Max2(0, Min2(U16Max, v + off))

\* The closure of random for one pixel, given the offset its rng delivers.
RandomValue(pixel, offset) ==
    IF SaturatingAddSignedU16(pixel, offset) > U16Max \div 2 THEN U16Max ELSE 0

RandomPixel(p) ==
    /\ dAlg = "Random"
    /\ dStatus = "running"
    /\ p \notin dDone
    /\ PixelTaskDone(p, RandomValue(dImg[p + 1], dDraw[p + 1]))

ERROR_LENGTH == 32

\* `weights`: ERROR_FALLOFF.powf(i / (ERROR_LENGTH - 1)) for i = 31 down to 0,
\* in units of 10^-9 (entry 1 multiplies the oldest error, entry 32 the newest).
RiemersmaWeights ==
    << 250000000, 261433537, 273389977, 285893235, 298968319, 312641380,
       326939767, 341892079, 357528222, 373879471, 390978530, 408859600,
       427558445, 447112467, 467560774, 488944268, 511305718, 534689849,
       559143434, 584715383, 611456843, 639421301, 668664689, 699245499,
       731224897, 764666844, 799638231, 836209005, 874452311, 914444643,
       956265989, 1000000000 >>

\* ((e as f64) * w).round() as i32 for |e| <= 65535 and w in units of 10^-9,
\* by long multiplication in base 1000 so that no product exceeds 32 bits.
RoundedProduct(e, w) ==
    LET ae == Abs(e)
        w2 == w \div 1000000
        w1 == (w % 1000000) \div 1000
        w0 == w % 1000
        t0 == ae * w0
        t1 == ae * w1 + (t0 \div 1000)
        t2 == ae * w2 + (t1 \div 1000)
        r  == (t2 % 1000) * 1000000 + (t1 % 1000) * 1000 + (t0 % 1000)
        q  == (t2 \div 1000) + (IF r >= 500000000 THEN 1 ELSE 0)
    IN  IF e < 0 THEN -q ELSE q

RECURSIVE SumAdjustment_reversed(_, _)
SumAdjustment_reversed(errors, k) ==
    IF k > Len(errors) THEN 0
    ELSE RoundedProduct(errors[k], RiemersmaWeights[Len(errors) + 1 - k])
            + SumAdjustment_reversed(errors, k + 1)

\* `errors.iter().zip(weights.iter()).map(..round() as i32).sum()`
RECURSIVE SumAdjustment(_, _)
SumAdjustment(errors, k) ==
    IF k > Len(errors) THEN 0
    ELSE RoundedProduct(errors[k], RiemersmaWeights[k]) + SumAdjustment(errors, k + 1)

\* (source_pixel as u32).saturating_add_signed(adjustment)
SaturatingAddSignedU32(v, adj) == Max2(0, v + adj)

\* One iteration of `while curve_idx < img.len()` in riemersma.  get_pixel
\* and put_pixel panic on coordinates outside the image.
RiemersmaStep ==
    /\ dAlg = "Riemersma"
    /\ dStatus = "running"
    /\ dPos < Len(dImg)
    /\ LET xy == gilbert_d2xy(dPos, dW, dH)
           x  == xy[1]
           y  == xy[2]
       IN  IF x \notin 0..(dW - 1) \/ y \notin 0..(dH - 1)
           THEN /\ dStatus' = "panicked"
                /\ UNCHANGED <<dImg, dPos, dErrors>>
           ELSE LET adjustment      == SumAdjustment(dErrors, 1)
                    source_pixel    == dImg[y * dW + x + 1]
                    adjusted_pixel  == SaturatingAddSignedU32(source_pixel, adjustment)
                    quantized_pixel == IF adjusted_pixel > U16Max \div 2
                                       THEN U16Max ELSE 0
                    error           == source_pixel - quantized_pixel
                IN  /\ dErrors' = Tail(Append(dErrors, error))
                    /\ dImg' = [dImg EXCEPT ![y * dW + x + 1] = quantized_pixel]
                    /\ dPos' = dPos + 1
                    /\ dStatus' = IF dPos + 1 = Len(dImg) THEN "returned"
                                  ELSE "running"
    /\ UNCHANGED <<dAlg, dBuild, dW, dH, dOrig, dDone, dMask, dDraw, dOverflowed,
                   dPrev>>
    /\ UNCHANGED NotDither

\* dither(algorithm, img) is entered with any algorithm and any image.  The
\* build only matters to the two dithers that add to pixels.
DitherInit ==
    /\ CliIdle
    /\ GilbertIdle
    /\ BatchIdle
    /\ SolverIdle
    /\ SamplerIdle
    /\ RenderIdle
    /\ dAlg \in Algorithms
    /\ dBuild \in IF dAlg \in {"FloydSteinberg", "Atkinson"}
                  THEN {"debug", "release"} ELSE {"release"}
    /\ \E size \in ImageSizes :
          /\ dW = size[1]
          /\ dH = size[2]
          /\ dOrig \in [1..(size[1] * size[2]) -> PixelValues]
          /\ dDraw \in IF dAlg = "Random"
                       THEN { [p \in 1..(size[1] * size[2]) |->
                                  Offsets[((seed + p) % Len(Offsets)) + 1]] :
                              seed \in 1..Len(Offsets) }
                       ELSE {<<>>}
    /\ dImg = dOrig
    /\ dPos = 0
    /\ dDone = {}
    /\ dErrors = IF dAlg = "Riemersma" THEN [k \in 1..ERROR_LENGTH |-> 0] ELSE <<>>
    /\ dMask \in IF dAlg = "BlueNoise" THEN MaskFiles \cup {NoMask} ELSE {NoMask}
    /\ dOverflowed = FALSE
    /\ dPrev = <<>>
    /\ dStatus = "running"

DitherNext ==
    \/ FloydSteinbergStep
    \/ AtkinsonStep
    \/ BlueNoiseOpenFails
    \/ \E p \in 0..(Len(dImg) - 1) : BlueNoisePixel(p)
    \/ \E p \in 0..(Len(dImg) - 1) : RandomPixel(p)
    \/ RiemersmaStep

SpecDither == DitherInit /\ [][DitherNext]_vars

(***************************************************************************)
(* C2: after dither(algorithm, img) returns, for each of the five          *)
(* algorithms and every input image, every pixel of img is 0 or u16::MAX.  *)
(***************************************************************************)
C2_BinaryOutput ==
    dStatus = "returned" => \A i \in 1..Len(dImg) : dImg[i] \in {0, U16Max}

C2_Witness ==
    /\ dStatus = "returned"
    /\ dAlg = "Riemersma"
    /\ Len(dImg) = 4
    /\ dW = 2
    /\ \E i \in 1..4 : dOrig[i] = 32767 /\ dImg[i] = U16Max

(***************************************************************************)
(* plotting/flux.rs: generate_flux_images_inclinations                     *)
(*                                                                         *)
(* A sample is abstracted to its observed_flux (a non-negative number, in  *)
(* flux units) here; sample_flux_at_points may return any such samples.    *)
(* A synthesized frame is recorded by what generate_flux_image_from_samples*)
(* was handed: the inclination, the samples and the flux range.            *)
(***************************************************************************)
MaxInclinations == 3

InclinationStep == 40

FluxValues == {0, 1, 2}

BatchSampleCounts == {0, 1}

RECURSIVE SeqMax(_)
SeqMax(fluxes) ==
    IF Len(fluxes) = 1 THEN fluxes[1]
    ELSE Max2(fluxes[1], SeqMax(Tail(fluxes)))

BatchInit ==
    /\ CliIdle
    /\ GilbertIdle
    /\ DitherIdle
    /\ SolverIdle
    /\ SamplerIdle
    /\ RenderIdle
    /\ \E n \in 0..MaxInclinations :
          bIncls = [i \in 1..n |-> (i - 1) * InclinationStep]
    /\ bCount \in BatchSampleCounts
    /\ bAll = <<>>
    /\ bMaxFlux = 0
    /\ bRange = <<>>
    /\ bImages = <<>>
    /\ bStatus = "sampling"

max_flux_overwritten(max_flux, inclination_max_flux) == inclination_max_flux

\* `if inclination_max_flux > max_flux { max_flux = inclination_max_flux; }`
UpdateMaxFlux(max_flux, inclination_max_flux) ==
    IF inclination_max_flux > max_flux THEN inclination_max_flux ELSE max_flux

\* One iteration of the first loop: sample at the next inclination and fold
\* its largest observed_flux into max_flux.  max_by(..).expect(..) panics on
\* an empty iterator.
BatchSample ==
    /\ bStatus = "sampling"
    /\ Len(bAll) < Len(bIncls)
    /\ \E direct_samples, ghost_samples \in [1..bCount -> FluxValues] :
          IF bCount = 0
          THEN /\ bStatus' = "panicked"
               /\ UNCHANGED <<bAll, bMaxFlux>>
          ELSE /\ bMaxFlux' = UpdateMaxFlux(bMaxFlux,
                                            SeqMax(direct_samples \o ghost_samples))
               /\ bAll' = Append(bAll, [direct |-> direct_samples,
                                        ghost |-> ghost_samples])
               /\ bStatus' = "sampling"
    /\ UNCHANGED <<bIncls, bCount, bRange, bImages>>
    /\ UNCHANGED NotBatch

\* `let flux_range = 0.0..=max_flux;` once the first loop is over.
BatchFixRange ==
    /\ bStatus = "sampling"
    /\ Len(bAll) = Len(bIncls)
    /\ bRange' = <<0, bMaxFlux>>
    /\ bStatus' = IF Len(bIncls) = 0 THEN "ok" ELSE "rendering"
    /\ UNCHANGED <<bIncls, bCount, bAll, bMaxFlux, bImages>>
    /\ UNCHANGED NotBatch

\* One iteration of the second loop: synthesize the next frame from the
\* zipped (inclination, samples) pair with Some(flux_range.clone()).
BatchRenderFrame ==
    /\ bStatus = "rendering"
    /\ LET k == Len(bImages) + 1
       IN  /\ bImages' = Append(bImages, [inclination |-> bIncls[k],
                                          samples |-> bAll[k],
                                          flux_range |-> bRange])
           /\ bStatus' = IF k = Len(bIncls) THEN "ok" ELSE "rendering"
    /\ UNCHANGED <<bIncls, bCount, bAll, bMaxFlux, bRange>>
    /\ UNCHANGED NotBatch

BatchNext ==
    \/ BatchSample
    \/ BatchFixRange
    \/ BatchRenderFrame

SpecBatch == BatchInit /\ [][BatchNext]_vars

\* The largest observed_flux over the direct and ghost samples of every
\* inclination drawn so far (0 when there is none).
RECURSIVE MaxOverAll(_)
MaxOverAll(all) ==
    IF Len(all) = 0 THEN 0
    ELSE Max2(SeqMax(all[1].direct \o all[1].ghost), MaxOverAll(Tail(all)))

(***************************************************************************)
(* C3: in generate_flux_images_inclinations the shared flux range          *)
(* [0, max observed_flux over the direct and ghost samples of ALL          *)
(* inclinations] is fully computed before the first frame is synthesized   *)
(* (every inclination has been sampled by then), every frame is            *)
(* synthesized with that same range, and the result holds exactly one      *)
(* image per inclination, in the order of the slice.                       *)
(***************************************************************************)
C3_SharedRangeBeforeFrames ==
    /\ Len(bImages) > 0 =>
          /\ Len(bAll) = Len(bIncls)
          /\ bRange = <<0, MaxOverAll(bAll)>>
    /\ \A k \in 1..Len(bImages) :
          /\ bImages[k].flux_range = <<0, MaxOverAll(bAll)>>
          /\ bImages[k].inclination = bIncls[k]
          /\ bImages[k].samples = bAll[k]
    /\ bStatus = "ok" => Len(bImages) = Len(bIncls)

\* A finished batch of three frames in which the brightest sample belongs to
\* the first inclination and not to the last.
C3_Witness ==
    /\ bStatus = "ok"
    /\ Len(bImages) = 3
    /\ SeqMax(bAll[1].direct \o bAll[1].ghost) = 2
    /\ SeqMax(bAll[3].direct \o bAll[3].ghost) = 1
    /\ bImages[3].flux_range = <<0, 2>>

(***************************************************************************)
(* solvers.rs and equations.rs                                             *)
(*                                                                         *)
(* Lengths (mass, radius, periastron) are integers in units of 10^-9, so   *)
(* PERIASTRON_TOLERANCE = 1e-6 is 1000 units and MIN_PERIASTRON = 3.001 is *)
(* 3001/1000.  A midpoint is rounded to this grid as f64 rounds it to its  *)
(* own.  An f64 result is kept as its class ("fin", "inf", "nan") and, for *)
(* a finite non-negative value, its square as a fraction <<num, den>>      *)
(* where that is needed.                                                   *)
(*                                                                         *)
(* f(P) = 1 - radius * one_over_radius(P, ..) is built from the elliptic   *)
(* integrals of the spec_math crate; only f(P).signum() is read by the     *)
(* solver, and it is taken as any of 1.0, -1.0 and NaN at each point.      *)
(***************************************************************************)
PERIASTRON_TOLERANCE == 1000

MAX_BISECTION_ITERS == 100

\* MIN_PERIASTRON, in thousandths.
MIN_PERIASTRON_MILLI == 3001

MAX_PERIASTRON == 3

\* f64::signum: 1.0, -1.0, or NaN (written 0).
Signs == {1, -1, 0}

SignEq_never(s, t) == FALSE

\* `s == t` and `s != t` on f64 signum values: NaN equals nothing.
SignEq(s, t) == s # 0 /\ t # 0 /\ s = t

SignNe(s, t) == ~SignEq(s, t)

\* (mass, radius) with mass > 0 and radius > 6 * mass.
SolverInputs == {<<1000, 6001>>, <<1000, 7000>>, <<2000, 13000>>}

\* Angles (degrees) whose cosine and tangent are exact: 2 * cos(alpha) and
\* tan(inclination)^2 are integers.  Inclination 0 is below
\* INCLINATION_TOLERANCE.
SolverAlphas == {0, 60, 120, 180}

SolverInclinations == {0, 45, 60}

TwiceCos(alpha) ==
    CASE alpha = 0 -> 2 [] alpha = 60 -> 1 [] alpha = 120 -> -1 [] alpha = 180 -> -2

TanSquared(inclination) ==
    CASE inclination = 45 -> 1 [] inclination = 60 -> 3

FloatFinite(num, den) == [kind |-> "fin", sq |-> <<num, den>>]

FloatNaN == [kind |-> "nan", sq |-> <<0, 1>>]

FloatInf == [kind |-> "inf", sq |-> <<0, 1>>]

\* calc_cos_gamma squared, as <<num, den>>:
\* cos^2 a / (cos^2 a + 1 / tan^2 i) = c^2 t / (c^2 t + 4) with c = 2 cos a.
CosGammaSquared(alpha, inclination) ==
    IF inclination = 0 THEN <<0, 1>>
    ELSE LET c2t == TwiceCos(alpha) * TwiceCos(alpha) * TanSquared(inclination)
         IN  <<c2t, c2t + 4>>

\* ellipse: radius * sin(acos(cos_gamma)).  acos is NaN outside [-1, 1];
\* inside, sin(acos(x)) = sqrt(1 - x^2) >= 0.
ellipse(radius, alpha, inclination) ==
    LET cg2 == CosGammaSquared(alpha, inclination)
    IN  IF cg2[1] > cg2[2] THEN FloatNaN
        ELSE FloatFinite(radius * radius * (cg2[2] - cg2[1]), cg2[2])

\* calc_impact_parameter_from_periastron: sqrt(P^3 / (P - 2 M)).  The
\* square is kept as P^2 * (P / (P - 2M)) only by its class: P^3 does not
\* fit 32 bits.
calc_impact_parameter_from_periastron(periastron, mass) ==
    LET d == periastron - 2 * mass
    IN  IF d = 0 THEN (IF periastron > 0 THEN FloatInf ELSE FloatNaN)
        ELSE IF sgn(periastron) * sgn(d) < 0 THEN FloatNaN
        ELSE FloatFinite(periastron, d)

calc_impact_parameter_no_fallback(periastron, radius, alpha, inclination, mass) ==
    IF periastron.some
    THEN calc_impact_parameter_from_periastron(periastron.value, mass)
    ELSE FloatNaN

\* calc_impact_parameter, given what calc_periastron returned.
calc_impact_parameter(periastron, radius, alpha, inclination, mass) ==
    IF periastron.some
    THEN calc_impact_parameter_from_periastron(periastron.value, mass)
    ELSE ellipse(radius, alpha, inclination)

Midpoint_unhalved(a, b) == b

\* (a + b) / 2.0
Midpoint(a, b) == a + ((b - a) \div 2)

SolverInit ==
    /\ CliIdle
    /\ GilbertIdle
    /\ DitherIdle
    /\ BatchIdle
    /\ SamplerIdle
    /\ RenderIdle
    /\ \E in \in SolverInputs : pMass = in[1] /\ pRadius = in[2]
    /\ pAlpha \in SolverAlphas
    /\ pIncl \in SolverInclinations
    /\ pA = 0
    /\ pB = 0
    /\ pSignA = 0
    /\ pSignB = 0
    /\ pSignMin = 0
    /\ pSignMax = 0
    /\ pLast = NoIteration
    /\ pNaNSeen = FALSE
    /\ pIter = 0
    /\ pPeriastron = NoPeriastron
    /\ pImpact = NoFloat
    /\ pStatus = "called"

\* The loop is left: `result = (a + b) / 2`, Some(result) unless it is NaN
\* (a midpoint of finite endpoints is not), and calc_impact_parameter
\* converts it.
SolverReturn(a, b) ==
    LET result == [some |-> TRUE, value |-> Midpoint(a, b)]
    IN  /\ pPeriastron' = result
        /\ pImpact' = calc_impact_parameter(result, pRadius, pAlpha, pIncl, pMass)
        /\ pStatus' = "done"

LoopContinues(a, b, iter) ==
    Abs(b - a) > PERIASTRON_TOLERANCE /\ iter < MAX_BISECTION_ITERS

\* calc_periastron up to the loop: evaluate f at both ends of
\* [MIN_PERIASTRON * mass, MAX_PERIASTRON * radius]; equal signs: None.
SolverStart ==
    /\ pStatus = "called"
    /\ LET lo == (MIN_PERIASTRON_MILLI * pMass) \div 1000
           hi == MAX_PERIASTRON * pRadius
       IN  \E sa, sb \in Signs :
              /\ pA' = lo
              /\ pB' = hi
              /\ pSignA' = sa
              /\ pSignB' = sb
              /\ pSignMin' = sa
              /\ pSignMax' = sb
              /\ pNaNSeen' = (sa = 0 \/ sb = 0)
              /\ IF SignEq(sa, sb)
                 THEN /\ pPeriastron' = NoPeriastron
                      /\ pImpact' = calc_impact_parameter(NoPeriastron, pRadius,
                                                          pAlpha, pIncl, pMass)
                      /\ pStatus' = "done"
                 ELSE IF LoopContinues(lo, hi, 0)
                 THEN /\ pStatus' = "bisecting"
                      /\ UNCHANGED <<pPeriastron, pImpact>>
                 ELSE SolverReturn(lo, hi)
    /\ UNCHANGED <<pMass, pRadius, pAlpha, pIncl, pIter, pLast>>
    /\ UNCHANGED NotSolver

\* One iteration of the bisection loop (and what follows the last one).
SolverIterate ==
    /\ pStatus = "bisecting"
    /\ LET c == Midpoint(pA, pB)
       IN  \E sc \in Signs :
              LET a  == IF SignNe(pSignA, sc) THEN pA
                        ELSE IF SignNe(pSignB, sc) THEN c ELSE pA
                  b  == IF SignNe(pSignA, sc) THEN c ELSE pB
                  sa == IF SignNe(pSignA, sc) THEN pSignA
                        ELSE IF SignNe(pSignB, sc) THEN sc ELSE pSignA
                  sb == IF SignNe(pSignA, sc) THEN sc ELSE pSignB
              IN  /\ pA' = a
                  /\ pB' = b
                  /\ pSignA' = sa
                  /\ pSignB' = sb
                  /\ pLast' = [sa |-> pSignA, sb |-> pSignB, sc |-> sc,
                                replaced |-> IF SignNe(pSignA, sc) THEN "b"
                                             ELSE IF SignNe(pSignB, sc) THEN "a"
                                             ELSE "none"]
                  /\ pNaNSeen' = (pNaNSeen \/ sc = 0)
                  /\ pIter' = pIter + 1
                  /\ IF LoopContinues(a, b, pIter + 1)
                     THEN UNCHANGED <<pPeriastron, pImpact, pStatus>>
                     ELSE SolverReturn(a, b)
    /\ UNCHANGED <<pMass, pRadius, pAlpha, pIncl, pSignMin, pSignMax>>
    /\ UNCHANGED NotSolver

SolverNext ==
    \/ SolverStart
    \/ SolverIterate

SpecSolver == SolverInit /\ [][SolverNext]_vars

(***************************************************************************)
(* C5: for mass > 0 and radius > 6 * mass, calc_impact_parameter returns a *)
(* finite, non-negative, non-NaN value: calc_impact_parameter_from_        *)
(* periastron(p, mass) when calc_periastron returns Some(p), and           *)
(* ellipse(radius, alpha, inclination) when it returns None.               *)
(***************************************************************************)
C5_ImpactParameterFinite ==
    pStatus = "done" =>
        /\ pImpact.kind = "fin"
        /\ pImpact.sq[1] >= 0
        /\ pImpact.sq[2] > 0
        /\ pPeriastron.some =>
              /\ pPeriastron.value > 2 * pMass
              /\ pImpact = FloatFinite(pPeriastron.value,
                                       pPeriastron.value - 2 * pMass)
        /\ ~pPeriastron.some =>
              LET cg2 == CosGammaSquared(pAlpha, pIncl)
              IN  pImpact = FloatFinite(pRadius * pRadius * (cg2[2] - cg2[1]), cg2[2])

\* Both routes are taken: a bisection that ran its iterations (with a NaN
\* sign on the way), and the ellipse fallback at a tilted inclination.
C5_Witness ==
    /\ pStatus = "done"
    /\ pPeriastron.some
    /\ pIter >= 4
    /\ pSignA = 0

C5_WitnessFallback ==
    /\ pStatus = "done"
    /\ ~pPeriastron.some
    /\ pIncl = 60
    /\ pAlpha = 120
    /\ pImpact.kind = "fin"

(***************************************************************************)
(* C13: calc_periastron returns None whenever f has the same sign at both  *)
(* endpoints P = 3.001 * mass and P = 3.0 * radius, and then performs no   *)
(* bisection iteration; when the endpoint signs differ it runs the         *)
(* bisection and returns Some(midpoint).                                   *)
(***************************************************************************)
C13_EndpointSignsDecide ==
    /\ (pStatus = "bisecting" /\ pSignMin # 0 /\ pSignMax # 0) => pSignMin # pSignMax
    /\ (pStatus = "done" /\ pSignMin # 0 /\ pSignMax # 0) =>
          IF pSignMin = pSignMax
          THEN /\ ~pPeriastron.some
               /\ pIter = 0
               /\ pLast = NoIteration
               /\ pA = (MIN_PERIASTRON_MILLI * pMass) \div 1000
               /\ pB = MAX_PERIASTRON * pRadius
          ELSE /\ pPeriastron.some
               /\ pIter >= 1
               /\ pPeriastron.value = Midpoint(pA, pB)

C13_Witness ==
    /\ pStatus = "done"
    /\ pSignMin = -1
    /\ pSignMax = -1
    /\ ~pPeriastron.some

C13_WitnessBisected ==
    /\ pStatus = "done"
    /\ pSignMin = -1
    /\ pSignMax = 1
    /\ pPeriastron.some
    /\ pIter >= 4
    /\ ~pNaNSeen

(***************************************************************************)
(* C14: the bisection loop always terminates: at most 100 iterations, it   *)
(* stops as soon as the bracket width |b - a| is <= 1e-6 measured in units *)
(* of mass, and then the midpoint (a + b) / 2 of the final bracket is      *)
(* returned.                                                               *)
(***************************************************************************)
\* 1e-6 in units of mass, on the 10^-9 grid: PERIASTRON_TOLERANCE * mass.
ToleranceInMassUnits == (PERIASTRON_TOLERANCE * pMass) \div 1000000000

LoopStopsAt(tolerance) ==
    /\ pIter <= MAX_BISECTION_ITERS
    /\ pStatus = "bisecting" => Abs(pB - pA) > tolerance
    /\ (pStatus = "done" /\ pPeriastron.some) =>
          /\ Abs(pB - pA) <= tolerance \/ pIter = MAX_BISECTION_ITERS
          /\ pPeriastron.value = Midpoint(pA, pB)

C14_StopsAtToleranceInMassUnits == LoopStopsAt(ToleranceInMassUnits)

\* What the loop does: the width is compared with 1e-6 as it is.
C14_StopsAtAbsoluteTolerance == LoopStopsAt(PERIASTRON_TOLERANCE)

\* mass = 2e-6: the loop has stopped at a width of about 0.5e-6, far above
\* 1e-6 masses.
C14_Witness ==
    /\ pStatus = "done"
    /\ pPeriastron.some
    /\ pMass = 2000
    /\ pIter < MAX_BISECTION_ITERS
    /\ Abs(pB - pA) > ToleranceInMassUnits
    /\ Abs(pB - pA) <= PERIASTRON_TOLERANCE

(***************************************************************************)
(* C15: before the loop and after every iteration signum(f(a)) !=          *)
(* signum(f(b)) for the current endpoints (the debug_assert never fails),  *)
(* and each iteration replaces exactly one endpoint, the one whose f-sign  *)
(* equals the sign of f at the midpoint.                                   *)
(***************************************************************************)
BracketSignsDiffer ==
    (pStatus = "bisecting" \/ (pStatus = "done" /\ pPeriastron.some))
    => SignNe(pSignA, pSignB)

ReplacedMatchesMidpoint ==
    pLast # NoIteration =>
        /\ pLast.replaced \in {"a", "b"}
        /\ pLast.replaced = "a" => SignEq(pLast.sa, pLast.sc)
        /\ pLast.replaced = "b" => SignEq(pLast.sb, pLast.sc)

C15_BracketingInvariant == BracketSignsDiffer /\ ReplacedMatchesMidpoint

\* The same when f was a number wherever it was evaluated.
C15_BracketingWithoutNaN == ~pNaNSeen => C15_BracketingInvariant

\* f is NaN at the midpoint: b is replaced although f(b) was negative.
C15_Witness ==
    /\ pLast.sa = 1
    /\ pLast.sb = -1
    /\ pLast.sc = 0
    /\ pLast.replaced = "b"

(***************************************************************************)
(* C16: calc_periastron returns None whenever f evaluates to NaN at an     *)
(* endpoint or at a bisection midpoint; it never returns Some(p) for a p   *)
(* obtained by bisecting on a NaN value of f, and never Some(NaN).         *)
(***************************************************************************)
C16_NaNGivesNone ==
    (pStatus = "done" /\ pNaNSeen) => ~pPeriastron.some

\* f is NaN at both endpoints and at every midpoint (as for alpha = NaN):
\* b collapses onto a and Some(about 3.001 * mass) is returned.
C16_Witness ==
    /\ pStatus = "done"
    /\ pSignMin = 0
    /\ pSignMax = 0
    /\ pSignB = 0
    /\ pPeriastron.some
    /\ pA = (MIN_PERIASTRON_MILLI * pMass) \div 1000
    /\ pPeriastron.value - pA <= PERIASTRON_TOLERANCE

(***************************************************************************)
(* blackhole.rs: BlackHole and sample_flux_at_points                       *)
(*                                                                         *)
(* The tasks 0 .. num_points-1 of the parallel iterator are run by the     *)
(* threads of the pool in any order and any distribution.  map_init hands  *)
(* each task the generator of the thread that runs it (rand::thread_rng is *)
(* thread-local), and the indexed collect puts the task's Sample at the    *)
(* task's index.                                                           *)
(***************************************************************************)
MaxPoints == 3

MaxWorkers == 2

\* BlackHole::new(mass, accretion_rate, disk_outer_edge) takes any values;
\* the default disk is the last one.
BlackHoles == {<<1, 5>>, <<1, 6>>, <<1, 8>>, <<2, 7>>, <<1, 50>>}

disk_inner_edge(mass) == 6 * mass

disk_outer_edge(mass, outer) == outer * mass

SamplerInclinations == {0, 60}

SamplerOrders == {0, 1}

\* Uniform::new(low, high) panics unless low < high; a sample of it is in
\* [low, high).  The lowest, the next and the highest grid value stand for
\* the interval.
UniformNewPanics(low, high) == low >= high

UniformSamples(low, high) == {low, Min2(low + 1, high - 1), high - 1}

\* alpha is drawn from [0, 2 pi): degrees.
AlphaSamples == {0, 180}

\* The closure of map_init: everything but radius and alpha is a function
\* of the arguments (calc_impact_parameter, calc_redshift_factor and
\* calc_observed_flux read nothing else); the three results are kept as
\* the argument list they are computed from.
MakeSample(radius, alpha, inclination, mass, order) ==
    [radius |-> radius,
     alpha |-> alpha,
     order |-> order,
     computed_from |-> <<radius, alpha, inclination, mass, order>>]

NoSample == [radius |-> 0, alpha |-> 0, order |-> 0, computed_from |-> <<>>]

SamplerInit ==
    /\ CliIdle
    /\ GilbertIdle
    /\ DitherIdle
    /\ BatchIdle
    /\ SolverIdle
    /\ RenderIdle
    /\ \E bh \in BlackHoles : sMass = bh[1] /\ sOuterEdge = bh[2]
    /\ sIncl \in SamplerInclinations
    /\ sNum \in 0..MaxPoints
    /\ sOrder \in SamplerOrders
    /\ sWorkers \in 1..MaxWorkers
    /\ sRng = [w \in 1..sWorkers |-> 0]
    /\ sBy = [i \in 1..sNum |-> 0]
    /\ sDrawn = [i \in 1..sNum |-> <<0, 0>>]
    /\ sOut = [i \in 1..sNum |-> NoSample]
    /\ sStatus = "called"

\* Lines 98-99: the two distributions are built before any task runs.
SamplerStart ==
    /\ sStatus = "called"
    /\ sStatus' =
          IF UniformNewPanics(disk_inner_edge(sMass),
                              disk_outer_edge(sMass, sOuterEdge))
          THEN "panicked"
          ELSE IF sNum = 0 THEN "returned" ELSE "running"
    /\ UNCHANGED <<sMass, sOuterEdge, sIncl, sNum, sOrder, sWorkers, sRng,
                   sBy, sDrawn, sOut>>
    /\ UNCHANGED NotSampler

\* Thread w runs task i: two draws from its own generator, one Sample.
\* collect returns when the last task is done.
SamplerRunTask(w, i) ==
    /\ sStatus = "running"
    /\ sBy[i] = 0
    /\ \E radius \in UniformSamples(disk_inner_edge(sMass),
                                    disk_outer_edge(sMass, sOuterEdge)),
          alpha \in AlphaSamples :
          /\ sRng' = [sRng EXCEPT ![w] = @ + 2]
          /\ sBy' = [sBy EXCEPT ![i] = w]
          /\ sDrawn' = [sDrawn EXCEPT ![i] = <<radius, alpha>>]
          /\ sOut' = [sOut EXCEPT ![i] =
                         MakeSample(radius, alpha, sIncl, sMass, sOrder)]
    /\ sStatus' = IF \A j \in 1..sNum : j = i \/ sBy[j] # 0
                  THEN "returned" ELSE "running"
    /\ UNCHANGED <<sMass, sOuterEdge, sIncl, sNum, sOrder, sWorkers>>
    /\ UNCHANGED NotSampler

SamplerNext ==
    \/ SamplerStart
    \/ \E w \in 1..sWorkers, i \in 1..sNum : SamplerRunTask(w, i)

SpecSampler == SamplerInit /\ [][SamplerNext]_vars

TasksRunBy(w) == {i \in 1..sNum : sBy[i] = w}

\* What the call returns when it returns: num_points samples, each with the
\* requested order and a radius inside the disk, each the pure function of
\* its own task's draws whatever thread ran it, every thread having drawn
\* only for its own tasks.
SamplerPostcondition ==
    /\ Len(sOut) = sNum
    /\ \A i \in 1..sNum :
          /\ sOut[i].order = sOrder
          /\ sOut[i].radius >= disk_inner_edge(sMass)
          /\ sOut[i].radius < disk_outer_edge(sMass, sOuterEdge)
          /\ sOut[i] = MakeSample(sDrawn[i][1], sDrawn[i][2], sIncl, sMass, sOrder)
    /\ \A w \in 1..sWorkers : sRng[w] = 2 * Cardinality(TasksRunBy(w))

(***************************************************************************)
(* C6: sample_flux_at_points(inclination, num_points, order) returns       *)
(* exactly num_points samples for any number of workers and any            *)
(* scheduling, each with the requested order and a radius in               *)
(* [disk_inner_edge(), disk_outer_edge()), each worker drawing from its    *)
(* own generator, the samples depending only on the per-task draws.        *)
(***************************************************************************)
C6_SamplerContract ==
    /\ sStatus # "panicked"
    /\ sStatus = "returned" => SamplerPostcondition

\* The same for black holes whose disk is not empty (6 < disk_outer_edge):
\* there the call never panics and the postcondition holds.
C6_NonEmptyDiskContract ==
    sOuterEdge > 6 =>
        /\ sStatus # "panicked"
        /\ sStatus = "returned" => SamplerPostcondition

C6_Witness ==
    /\ sStatus = "returned"
    /\ sNum = MaxPoints
    /\ TasksRunBy(1) # {}
    /\ TasksRunBy(2) # {}
    /\ sBy[1] = 2

C6_WitnessPanic ==
    /\ sStatus = "panicked"
    /\ sOuterEdge = 5
    /\ sNum > 0

(***************************************************************************)
(* plotting/flux.rs: generate_flux_image_from_samples                      *)
(*                                                                         *)
(* A Sample is kept as alpha (degrees, a multiple of 90, where sine and    *)
(* cosine are -1, 0 or 1), impact_parameter, order and observed_flux;      *)
(* `nan` marks an impact_parameter that is NaN.  The black hole has mass 1 *)
(* as in bin.rs.  The impact parameter of a pixel is an f64 that can be    *)
(* NaN or infinite; a finite one is kept as its square times               *)
(* image_width^2 (an integer), and compared with an edge by squares.       *)
(*                                                                         *)
(* apparent_inner_edge_radius and apparent_outer_edge_radius come from     *)
(* calc_impact_parameter (finite and non-negative, see C5); they are taken *)
(* from EdgeValues.  The spade crate's barycentric interpolation of the    *)
(* fluxes at a point is None or a value between the least and the largest  *)
(* flux of the vertices.                                                   *)
(***************************************************************************)
MaxRenderPixels == 3

RenderSizes == {<<w, h>> \in (1..MaxRenderPixels) \X (1..MaxRenderPixels) :
                   w * h <= MaxRenderPixels}

RenderMass == 1

\* critical_impact_parameter() squared: (3 sqrt(3) mass)^2.
CriticalSquared == 27 * RenderMass * RenderMass

InnerEdgeValues == {5, 7}

OuterEdgeValues == {7, 12}

MkSample(alpha, impact_parameter, order, observed_flux) ==
    [alpha |-> alpha, impact_parameter |-> impact_parameter, order |-> order,
     observed_flux |-> observed_flux, nan |-> FALSE]

NaNSample(order) ==
    [alpha |-> 0, impact_parameter |-> 0, order |-> order,
     observed_flux |-> 1, nan |-> TRUE]

\* Sample sets handed to the renderer: none, one, two (collinear with the
\* origin), three in general position, and one with a NaN position.
DirectSampleSets ==
    { <<>>,
      <<MkSample(90, 10, 0, 2)>>,
      <<MkSample(90, 10, 0, 1), MkSample(270, 10, 0, 2)>>,
      <<MkSample(90, 10, 0, 2), MkSample(270, 10, 0, 1), MkSample(180, 10, 0, 4)>>,
      <<NaNSample(0)>> }

GhostSampleSets ==
    { <<>>,
      <<MkSample(90, 6, 1, 1)>>,
      <<MkSample(90, 6, 1, 1), MkSample(270, 6, 1, 5), MkSample(180, 6, 1, 3)>> }

SomeRange(start, end) == [some |-> TRUE, start |-> start, end |-> end]

FluxRangeOptions ==
    {NoRange, SomeRange(3, 3)} \cup {SomeRange(0, f) : f \in {1, 2, 4, 5}}

CosDeg(a) == CASE a % 360 = 0 -> 1 [] a % 360 = 180 -> -1 [] OTHER -> 0

SinDeg(a) == CASE a % 360 = 90 -> 1 [] a % 360 = 270 -> -1 [] OTHER -> 0

observer_position_unflipped(s) ==
    <<s.impact_parameter * CosDeg(s.alpha), s.impact_parameter * SinDeg(s.alpha)>>

\* Sample::observer_position: y is flipped for order > 0.
observer_position(s) ==
    LET y == s.impact_parameter * SinDeg(s.alpha)
    IN  <<s.impact_parameter * CosDeg(s.alpha), IF s.order > 0 THEN -y ELSE y>>

\* `sample.alpha += Rad::from(Deg(-90.0))` for every sample of a slice.
Rotate(samples) ==
    [i \in 1..Len(samples) |-> [samples[i] EXCEPT !.alpha = @ - 90]]

SetMin(S) == CHOOSE x \in S : \A y \in S : x <= y

SetMax(S) == CHOOSE x \in S : \A y \in S : x >= y

\* One step of the fold of samples_range.  The accumulator starts as
\* (f64::MAX, f64::MAX, f64::MIN, f64::MIN), written `empty`: every number
\* is Less than f64::MAX and Greater than f64::MIN, and a NaN coordinate is
\* neither Less nor Greater than anything, so it changes nothing.
samples_range_step(acc, s, pt) ==
    IF s.nan THEN acc
    ELSE [empty |-> FALSE,
          min_x |-> IF acc.empty \/ pt[1] < acc.min_x THEN pt[1] ELSE acc.min_x,
          min_y |-> IF acc.empty \/ pt[2] < acc.min_y THEN pt[2] ELSE acc.min_y,
          max_x |-> IF acc.empty \/ pt[1] > acc.max_x THEN pt[1] ELSE acc.max_x,
          max_y |-> IF acc.empty \/ pt[2] > acc.max_y THEN pt[2] ELSE acc.max_y]

RECURSIVE samples_range_fold(_, _, _)
samples_range_fold(samples, k, acc) ==
    IF k > Len(samples) THEN acc
    ELSE samples_range_fold(samples, k + 1,
             samples_range_step(acc, samples[k], observer_position(samples[k])))

samples_range(samples) == samples_range_fold(samples, 1, NoBBox)

Fluxes(samples) == {samples[i].observed_flux : i \in 1..Len(samples)}

flux_max_direct_only(direct, ghost) ==
    IF direct = <<>> THEN 0 ELSE SetMax(Fluxes(direct))

\* The closure of unwrap_or_else: the largest observed_flux of both sets.
flux_max(direct, ghost) == SetMax(Fluxes(direct \o ghost))

\* DelaunayTriangulation::insert returns Err for a NaN coordinate.
InsertFails(samples) == \E i \in 1..Len(samples) : samples[i].nan

\* Barycentric::interpolate over a triangulation of `samples`.
NoFlux == [some |-> FALSE, flux |-> 0]

InterpolateOptions(samples) ==
    {NoFlux} \cup
    (IF samples = <<>> THEN {}
     ELSE {[some |-> TRUE, flux |-> SetMin(Fluxes(samples))],
           [some |-> TRUE, flux |-> SetMax(Fluxes(samples))]})

\* interpolate_and_normalize_flux followed by
\* `(flux * f64::from(u16::MAX)).round() as u16`: the cast saturates and
\* sends NaN to 0.
Luma(interp, range) ==
    IF ~interp.some THEN 0
    ELSE LET n == interp.flux - range.start
             d == range.end - range.start
         IN  IF d = 0 THEN (IF n > 0 THEN U16Max ELSE 0)
             ELSE IF sgn(n) * sgn(d) < 0 THEN 0
             ELSE Min2(U16Max, (2 * Abs(n) * U16Max + Abs(d)) \div (2 * Abs(d)))

\* impact_parameter = sqrt(x^2 + y^2) of the pixel at offsets (dx, dy) from
\* the image centre, x = dx * units_per_pixel, y = -dy * units_per_pixel.
\* With the start values of samples_range, units_per_pixel is
\* (f64::MIN - f64::MAX) / width = -inf, and 0 * -inf is NaN.
FloatOf(kind, sq) == [kind |-> kind, sq |-> sq]

PixelImpactParameter(bbox, dx, dy) ==
    IF bbox.empty
    THEN (IF dx = 0 \/ dy = 0 THEN FloatOf("nan", 0) ELSE FloatOf("inf", 0))
    ELSE FloatOf("fin", (dx * dx + dy * dy)
                           * (bbox.max_x - bbox.min_x) * (bbox.max_x - bbox.min_x))

\* f64 comparisons of an impact parameter with an edge value (finite,
\* non-negative): every comparison with NaN is false.
EdgeSq(e, width) == e * e * width * width

LeEdge(b, e, width) == b.kind = "fin" /\ b.sq <= EdgeSq(e, width)

GtEdge(b, e, width) == b.kind = "inf" \/ (b.kind = "fin" /\ b.sq > EdgeSq(e, width))

\* impact_parameter < inner.min(critical_impact_parameter())
LtInnerOrCritical(b, inner, width) ==
    LET m == IF inner * inner <= CriticalSquared
             THEN EdgeSq(inner, width)
             ELSE CriticalSquared * width * width
    IN  b.kind = "fin" /\ b.sq < m

order_to_show_black_as_ghost(b, inner, outer, width) ==
    IF LeEdge(b, inner, width) \/ GtEdge(b, outer, width) THEN "Ghost" ELSE "Direct"

\* The `order_to_show` expression of the pixel closure.
order_to_show(b, inner, outer, width) ==
    IF LeEdge(b, inner, width) \/ GtEdge(b, outer, width)
    THEN (IF LtInnerOrCritical(b, inner, width) THEN "None" ELSE "Ghost")
    ELSE "Direct"

NoTask == [done |-> FALSE, b |-> FloatOf("nan", 0), zone |-> "None", interp |-> NoFlux]

RenderInit ==
    /\ CliIdle
    /\ GilbertIdle
    /\ DitherIdle
    /\ BatchIdle
    /\ SolverIdle
    /\ SamplerIdle
    /\ rDirectIn \in DirectSampleSets
    /\ rGhostIn \in GhostSampleSets
    /\ rDirect = rDirectIn
    /\ rGhost = rGhostIn
    /\ \E size \in RenderSizes : rW = size[1] /\ rH = size[2]
    /\ rRangeOpt \in FluxRangeOptions
    /\ rInner \in InnerEdgeValues
    /\ rOuter \in OuterEdgeValues
    /\ rBBox = NoBBox
    /\ rRange = NoRange
    /\ rImg = <<>>
    /\ rTask = <<>>
    /\ rStatus = "called"

\* Lines 98-138: rotation of the caller's samples in place, bounding box,
\* flux range (`.expect("non-empty iter of samples")` panics when no range
\* is given and there is no sample), the zeroed image, and the two
\* triangulations (`t.insert(sample)?` returns the Err).
RenderSetup ==
    /\ rStatus = "called"
    /\ rDirect' = Rotate(rDirect)
    /\ rGhost' = Rotate(rGhost)
    /\ rBBox' = samples_range(Rotate(rDirect) \o Rotate(rGhost))
    /\ IF ~rRangeOpt.some /\ rDirect \o rGhost = <<>>
       THEN /\ rStatus' = "panicked"
            /\ UNCHANGED <<rRange, rImg, rTask>>
       ELSE /\ rRange' = IF rRangeOpt.some THEN rRangeOpt
                         ELSE SomeRange(0, flux_max(rDirect, rGhost))
            /\ rImg' = [i \in 1..(rW * rH) |-> 0]
            /\ rTask' = [i \in 1..(rW * rH) |-> NoTask]
            /\ rStatus' = IF InsertFails(rDirect) \/ InsertFails(rGhost)
                          THEN "err" ELSE "rendering"
    /\ UNCHANGED <<rDirectIn, rGhostIn, rW, rH, rRangeOpt, rInner, rOuter>>
    /\ UNCHANGED NotRender

\* What the closure writes to its pixel, given its zone and what the
\* interpolator of that zone returned.
PixelLuma(zone, interp, range) == IF zone = "None" THEN 0 ELSE Luma(interp, range)

\* The closure of for_each_init for the pixel with row-major index p
\* (col = (p - 1) % width, row = (p - 1) / width); the call returns
\* Ok(img) after the last one.
RenderPixel(p) ==
    /\ rStatus = "rendering"
    /\ ~rTask[p].done
    /\ LET dx   == ((p - 1) % rW) - (rW \div 2)
           dy   == ((p - 1) \div rW) - (rH \div 2)
           b    == PixelImpactParameter(rBBox, dx, dy)
           zone == order_to_show(b, rInner, rOuter, rW)
           opts == CASE zone = "None" -> {NoFlux}
                     [] zone = "Direct" -> InterpolateOptions(rDirect)
                     [] zone = "Ghost" -> InterpolateOptions(rGhost)
       IN  \E interp \in opts :
              /\ rImg' = [rImg EXCEPT ![p] = PixelLuma(zone, interp, rRange)]
              /\ rTask' = [rTask EXCEPT ![p] =
                              [done |-> TRUE, b |-> b, zone |-> zone, interp |-> interp]]
    /\ rStatus' = IF \A q \in 1..(rW * rH) : q = p \/ rTask[q].done
                  THEN "ok" ELSE "rendering"
    /\ UNCHANGED <<rDirectIn, rGhostIn, rDirect, rGhost, rW, rH, rRangeOpt,
                   rInner, rOuter, rBBox, rRange>>
    /\ UNCHANGED NotRender

RenderNext ==
    \/ RenderSetup
    \/ \E p \in 1..(rW * rH) : RenderPixel(p)

SpecRender == RenderInit /\ [][RenderNext]_vars

DonePixels == {p \in 1..Len(rTask) : rTask[p].done}

(***************************************************************************)
(* C4: a pixel with impact parameter b and edge values inner and outer     *)
(* shows the direct image iff inner < b <= outer; otherwise it is black    *)
(* (value 0) iff b < min(inner, critical_impact_parameter), and shows the  *)
(* ghost image in every remaining case.                                    *)
(***************************************************************************)
InDisk(b) == GtEdge(b, rInner, rW) /\ LeEdge(b, rOuter, rW)

InSilhouette(b) ==
    /\ b.kind = "fin"
    /\ b.sq < EdgeSq(rInner, rW)
    /\ b.sq < CriticalSquared * rW * rW

ZoneRule(p) ==
    LET b == rTask[p].b
        z == rTask[p].zone
    IN  /\ z \in {"Direct", "None", "Ghost"}
        /\ z = "Direct" <=> InDisk(b)
        /\ z = "None" <=> (~InDisk(b) /\ InSilhouette(b))
        /\ z = "Ghost" <=> (~InDisk(b) /\ ~InSilhouette(b))
        /\ z = "None" => rImg[p] = 0

C4_ZoneClassification == \A p \in DonePixels : ZoneRule(p)

\* The same rule for the pixels whose impact parameter is not NaN.
C4_ComparableZoneClassification ==
    \A p \in DonePixels : rTask[p].b.kind # "nan" => ZoneRule(p)

\* A render without samples: units_per_pixel is -inf, the centre pixel
\* has a NaN impact parameter and is given the direct zone.
C4_WitnessNaN ==
    /\ rStatus = "ok"
    /\ \E p \in DonePixels : rTask[p].b.kind = "nan" /\ rTask[p].zone = "Direct"

(***************************************************************************)
(* C9: every pixel whose impact parameter is within the apparent inner     *)
(* disk edge (impact_parameter <= apparent_inner_edge_radius) has the      *)
(* value exactly 0.                                                        *)
(***************************************************************************)
C9_InsideInnerEdgeIsZero ==
    \A p \in DonePixels : LeEdge(rTask[p].b, rInner, rW) => rImg[p] = 0

\* C9 as the code has it: every pixel whose impact parameter is below
\* min(apparent_inner_edge_radius, critical_impact_parameter) is exactly 0.
C9_InsideSilhouetteIsZero ==
    \A p \in DonePixels : InSilhouette(rTask[p].b) => rImg[p] = 0

\* One image with a black pixel in the silhouette and a lit pixel (the
\* ghost image) between the critical impact parameter and the inner edge.
C9_Witness ==
    /\ rStatus = "ok"
    /\ \E p, q \in DonePixels :
          /\ InSilhouette(rTask[p].b)
          /\ rImg[p] = 0
          /\ ~InSilhouette(rTask[q].b)
          /\ LeEdge(rTask[q].b, rInner, rW)
          /\ rImg[q] > 0

(***************************************************************************)
(* C8: rendering with flux_range = Some(0 ..= F), F the maximum            *)
(* observed_flux over all direct and ghost samples, produces pixel for     *)
(* pixel the image that rendering with flux_range = None produces.         *)
(***************************************************************************)
AllFluxesIn == Fluxes(rDirectIn) \cup Fluxes(rGhostIn)

TrueMaximum(f) == f \in AllFluxesIn /\ \A g \in AllFluxesIn : g <= f

\* The range a call with None computes from the same samples.
RangeOfNone == SomeRange(0, flux_max(rDirect, rGhost))

C8_ExplicitMaxRangeSameImage ==
    (/\ rStatus \in {"rendering", "ok"}
     /\ rRangeOpt.some
     /\ rRangeOpt.start = 0
     /\ TrueMaximum(rRangeOpt.end))
    => \A p \in DonePixels :
          rImg[p] = PixelLuma(rTask[p].zone, rTask[p].interp, RangeOfNone)

C8_Witness ==
    /\ rStatus = "ok"
    /\ rRangeOpt = SomeRange(0, 5)
    /\ TrueMaximum(5)
    /\ \E p \in DonePixels : rImg[p] > 0 /\ rImg[p] < U16Max

(***************************************************************************)
(* C10: a render given fewer than 3 non-degenerate points in the direct or *)
(* the ghost sample set (0, 1 or 2 samples included) returns an Err; it    *)
(* neither returns an image nor panics.                                    *)
(***************************************************************************)
FewerThanThreePoints(samples) ==
    Cardinality({observer_position(samples[i]) :
                    i \in {j \in 1..Len(samples) : ~samples[j].nan}}) < 3

C10_FewPointsIsError ==
    (FewerThanThreePoints(rDirectIn) \/ FewerThanThreePoints(rGhostIn))
    => rStatus \notin {"rendering", "ok", "panicked"}

C10_WitnessImage ==
    /\ rStatus = "ok"
    /\ Len(rDirectIn) = 2
    /\ rGhostIn = <<>>
    /\ \E p \in DonePixels : rImg[p] > 0

C10_WitnessPanic ==
    /\ rStatus = "panicked"
    /\ rDirectIn = <<>>
    /\ rGhostIn = <<>>

(***************************************************************************)
(* The parallel per-pixel phases together: the pixel closure of            *)
(* generate_flux_image_from_samples, blue_noise and random.                *)
(***************************************************************************)
ParallelInit ==
    \/ RenderInit
    \/ DitherInit

ParallelNext ==
    \/ RenderNext
    \/ DitherNext

SpecParallel == ParallelInit /\ [][ParallelNext]_vars

\* The pixel a dither task writes, from the pixel it was given.
DitherTaskResult(p) ==
    IF dAlg = "BlueNoise"
    THEN BlueNoiseValue(dOrig[p + 1], dMask, p % dW, p \div dW)
    ELSE RandomValue(dOrig[p + 1], dDraw[p + 1])

\* The range every render task reads.
RangeAtSetup ==
    IF rRangeOpt.some THEN rRangeOpt
    ELSE SomeRange(0, SetMax(Fluxes(rDirectIn) \cup Fluxes(rGhostIn)))

(***************************************************************************)
(* C7: in the parallel per-pixel phases each task writes only the pixel it *)
(* was given and reads only data no task writes (the triangulations, the   *)
(* mask, the flux range), so at every point of every interleaving a pixel  *)
(* holds its task's result if the task has run and its initial value if    *)
(* not, and the final image is the one sequential processing gives.        *)
(***************************************************************************)
C7_PixelTasksIndependent ==
    /\ rStatus \in {"rendering", "ok"} =>
          /\ rDirect = Rotate(rDirectIn)
          /\ rGhost = Rotate(rGhostIn)
          /\ rRange = RangeAtSetup
          /\ \A p \in 1..(rW * rH) :
                rImg[p] = IF rTask[p].done
                          THEN PixelLuma(rTask[p].zone, rTask[p].interp, RangeAtSetup)
                          ELSE 0
    /\ (dAlg \in {"BlueNoise", "Random"} /\ dStatus \in {"running", "returned"}) =>
          \A p \in 0..(dW * dH - 1) :
             dImg[p + 1] = IF p \in dDone THEN DitherTaskResult(p) ELSE dOrig[p + 1]

\* A render and a dither caught half way, tasks run out of order.
C7_Witness ==
    /\ dAlg = "Random"
    /\ dStatus = "running"
    /\ dDone = {0, 2}
    /\ dImg[1] # dOrig[1]
    /\ dImg[3] # dOrig[3]

C7_WitnessRender ==
    /\ rStatus = "rendering"
    /\ Len(rTask) = 3
    /\ rTask[3].done
    /\ ~rTask[1].done
    /\ rImg[3] > 0

(***************************************************************************)
(* C11: every BlackHole that can be constructed (BlackHole::new with any   *)
(* arguments, or Default) has disk_inner_edge() < disk_outer_edge(), with  *)
(* disk_inner_edge() = 6 * mass and disk_outer_edge() =                    *)
(* disk_outer_edge * mass.                                                 *)
(***************************************************************************)
C11_DiskEdgesOrdered ==
    sStatus # "idle" =>
        disk_inner_edge(sMass) < disk_outer_edge(sMass, sOuterEdge)

\* BlackHole::new(1.0, _, 6.0): the disk is empty, and sampling it panics.
C11_WitnessEmptyDisk ==
    /\ sMass = 1
    /\ sOuterEdge = 6
    /\ disk_inner_edge(sMass) = disk_outer_edge(sMass, sOuterEdge)
    /\ sStatus = "panicked"

(***************************************************************************)
(* C12: samples_range over a non-empty set of samples returns (min, max)   *)
(* with min.x, min.y the smallest and max.x, max.y the largest x and y     *)
(* among the samples' observer positions (y negated for order > 0); for a  *)
(* single sample min = max = that sample's position.                       *)
(***************************************************************************)
RangedSamples == rDirect \o rGhost

ExpectedX(s) == s.impact_parameter * CosDeg(s.alpha)

ExpectedY(s) ==
    IF s.order > 0 THEN 0 - s.impact_parameter * SinDeg(s.alpha)
    ELSE s.impact_parameter * SinDeg(s.alpha)

C12_SamplesRangeIsBoundingBox ==
    (/\ rStatus \in {"rendering", "ok", "err"}
     /\ RangedSamples # <<>>
     /\ \A i \in 1..Len(RangedSamples) : ~RangedSamples[i].nan)
    => LET xs == {ExpectedX(RangedSamples[i]) : i \in 1..Len(RangedSamples)}
           ys == {ExpectedY(RangedSamples[i]) : i \in 1..Len(RangedSamples)}
       IN  /\ ~rBBox.empty
           /\ rBBox.min_x \in xs /\ \A x \in xs : rBBox.min_x <= x
           /\ rBBox.max_x \in xs /\ \A x \in xs : rBBox.max_x >= x
           /\ rBBox.min_y \in ys /\ \A y \in ys : rBBox.min_y <= y
           /\ rBBox.max_y \in ys /\ \A y \in ys : rBBox.max_y >= y
           /\ Len(RangedSamples) = 1 =>
                 /\ rBBox.min_x = rBBox.max_x
                 /\ rBBox.min_y = rBBox.max_y
                 /\ rBBox.min_x = ExpectedX(RangedSamples[1])
                 /\ rBBox.min_y = ExpectedY(RangedSamples[1])

\* Six samples, the lowest point a ghost sample whose y was flipped.
C12_Witness ==
    /\ rStatus = "rendering"
    /\ Len(RangedSamples) = 6
    /\ rBBox = [empty |-> FALSE, min_x |-> -10, min_y |-> -6,
                max_x |-> 10, max_y |-> 10]

C12_WitnessSingle ==
    /\ rStatus = "rendering"
    /\ Len(RangedSamples) = 1
    /\ rBBox = [empty |-> FALSE, min_x |-> 6, min_y |-> 0, max_x |-> 6, max_y |-> 0]

(***************************************************************************)
(* C17: floyd_steinberg goes through the pixels in raster order; for each  *)
(* pixel with quantization error e = value before quantization - quantized *)
(* value it adds round(e*7/16), round(e*3/16), round(e*5/16),              *)
(* round(e*1/16) to the right, below-left, below and below-right           *)
(* neighbours, for negative e as for positive e, and it quantizes to white *)
(* iff the value is above mid-scale.                                       *)
(***************************************************************************)
\* round(e * weight / divisor) for either sign of e (a tie of the f64
\* product may fall either way).
SignedShares(e, weight, divisor) ==
    IF e >= 0 THEN ShareOptions(e, weight, divisor)
    ELSE {0 - sh : sh \in ShareOptions(0 - e, weight, divisor)}

\* The last completed iteration handled flat index dPos - 1; its kernel
\* entry k reaches a pixel of the image that no other entry reaches.
LastPixel == dPos - 1

ReachesAlone(offs, k) ==
    /\ offs[k] > 0
    /\ LastPixel + offs[k] < Len(dImg)
    /\ \A k2 \in 1..Len(offs) : k2 # k => offs[k2] # offs[k]

AfterIteration(alg) ==
    /\ dAlg = alg
    /\ dStatus \in {"running", "returned"}
    /\ dPos >= 1
    /\ ~dOverflowed

LastError == dPrev[LastPixel + 1] - dImg[LastPixel + 1]

C17_FloydSteinbergBothSigns ==
    AfterIteration("FloydSteinberg") =>
        /\ dImg[LastPixel + 1] = (IF 2 * dPrev[LastPixel + 1] > U16Max THEN U16Max ELSE 0)
        /\ \A j \in 1..LastPixel : dImg[j] \in {0, U16Max}
        /\ \A k \in 1..4 :
              ReachesAlone(FsOffsets(dW), k) =>
                 dImg[LastPixel + FsOffsets(dW)[k] + 1]
                    - dPrev[LastPixel + FsOffsets(dW)[k] + 1]
                 \in SignedShares(LastError, FsWeights[k], 16)

\* What the code does: the shares of a positive error are added, a
\* negative error adds nothing.
C17_FloydSteinbergPositiveOnly ==
    AfterIteration("FloydSteinberg") =>
        /\ dImg[LastPixel + 1] = (IF 2 * dPrev[LastPixel + 1] > U16Max THEN U16Max ELSE 0)
        /\ \A k \in 1..4 :
              ReachesAlone(FsOffsets(dW), k) =>
                 dImg[LastPixel + FsOffsets(dW)[k] + 1]
                    - dPrev[LastPixel + FsOffsets(dW)[k] + 1]
                 \in (IF LastError > 0
                      THEN SignedShares(LastError, FsWeights[k], 16) ELSE {0})

\* A pixel of 32768 became white (e = -32767) and its right neighbour is
\* what it was.
C17_Witness ==
    /\ AfterIteration("FloydSteinberg")
    /\ dW >= 2
    /\ dPrev[LastPixel + 1] = 32768
    /\ dImg[LastPixel + 1] = U16Max
    /\ ReachesAlone(FsOffsets(dW), 1)
    /\ dPrev[LastPixel + 2] = U16Max
    /\ dImg[LastPixel + 2] = U16Max

(***************************************************************************)
(* The sequential dithers on images large enough for a full Atkinson       *)
(* kernel and for riemersma's history to fill up.  The images are a few    *)
(* patterns rather than every content.                                     *)
(***************************************************************************)
LargeSizes == {<<4, 3>>, <<7, 5>>}

SequentialAlgorithms == {"FloydSteinberg", "Atkinson", "Riemersma"}

PatternImages(n) ==
    {[i \in 1..n |-> v] : v \in PixelValues}
    \cup {[i \in 1..n |-> IF i % 2 = 1 THEN 32768 ELSE 32767],
          [i \in 1..n |-> IF i % 2 = 1 THEN 32767 ELSE U16Max],
          [i \in 1..n |-> IF i % 3 = 1 THEN 32768 ELSE 0],
          [i \in 1..n |-> IF i \in {4, 7} THEN 32767 ELSE 0]}

DitherLargeInit ==
    /\ CliIdle
    /\ GilbertIdle
    /\ BatchIdle
    /\ SolverIdle
    /\ SamplerIdle
    /\ RenderIdle
    /\ dAlg \in SequentialAlgorithms
    /\ dBuild \in IF dAlg = "Riemersma" THEN {"release"} ELSE {"debug", "release"}
    /\ \E size \in LargeSizes :
          /\ dW = size[1]
          /\ dH = size[2]
          /\ dOrig \in PatternImages(size[1] * size[2])
    /\ dImg = dOrig
    /\ dPos = 0
    /\ dDone = {}
    /\ dErrors = IF dAlg = "Riemersma" THEN [k \in 1..ERROR_LENGTH |-> 0] ELSE <<>>
    /\ dMask = NoMask
    /\ dDraw = <<>>
    /\ dOverflowed = FALSE
    /\ dPrev = <<>>
    /\ dStatus = "running"

DitherLargeNext ==
    \/ FloydSteinbergStep
    \/ AtkinsonStep
    \/ RiemersmaStep

SpecDitherLarge == DitherLargeInit /\ [][DitherLargeNext]_vars

(***************************************************************************)
(* C18: for every pixel that has all six kernel neighbours inside the      *)
(* image, atkinson diffuses exactly 6/8 of the pixel's quantization error  *)
(* e, 1/8 of e to each of the neighbours at flat offsets 1, 2, width-1,    *)
(* width, width+1, 2*width, for both signs of e, and discards the other    *)
(* 2/8.                                                                    *)
(***************************************************************************)
AllSixInside == LastPixel + 2 * dW < Len(dImg)

\* How many kernel entries reach the pixel at flat offset d.
EntriesAt(offs, d) == Cardinality({k \in 1..Len(offs) : offs[k] = d})

AtkinsonDiffuses(shares) ==
    \E sh \in shares :
       \A d \in 1..(2 * dW) :
          dImg[LastPixel + d + 1] - dPrev[LastPixel + d + 1]
             = EntriesAt(AtkinsonOffsets(dW), d) * sh

C18_AtkinsonSixEighthsBothSigns ==
    (AfterIteration("Atkinson") /\ AllSixInside) =>
        AtkinsonDiffuses(SignedShares(LastError, 1, 8))

\* What the code does: 1/8 of a positive error to each neighbour, nothing
\* of a negative one.
C18_AtkinsonSixEighthsPositiveOnly ==
    (AfterIteration("Atkinson") /\ AllSixInside) =>
        AtkinsonDiffuses(IF LastError > 0 THEN SignedShares(LastError, 1, 8) ELSE {0})

\* A 4x3 image: pixel 0 at 32768 became white and none of its six
\* neighbours moved.
C18_Witness ==
    /\ AfterIteration("Atkinson")
    /\ AllSixInside
    /\ dW = 4
    /\ dPos = 1
    /\ dPrev[1] = 32768
    /\ dImg[1] = U16Max
    /\ \A d \in {1, 2, 3, 4, 5, 8} : dImg[d + 1] = dPrev[d + 1] /\ dPrev[d + 1] > 4096

C18_WitnessPositive ==
    /\ AfterIteration("Atkinson")
    /\ AllSixInside
    /\ dW = 4
    /\ dPos = 1
    /\ dPrev[1] = 32767
    /\ \A d \in {1, 2, 3, 4, 5, 8} : dImg[d + 1] = dPrev[d + 1] + 4096

(***************************************************************************)
(* C19: riemersma keeps an error history of exactly 32 entries at every    *)
(* step (all zero at first); after the k-th pixel along the curve it holds *)
(* the quantization errors of the min(k, 32) most recently visited pixels  *)
(* in visiting order, oldest first; the adjustment of the next pixel       *)
(* weights the newest entry by 1, the oldest by 1/4, entry i (0 = newest)  *)
(* by (1/4)^(i/31).                                                        *)
(***************************************************************************)
\* Flat index (from 1) of the v-th pixel visited, v = 1, 2, ..
VisitedCell(v) ==
    LET xy == gilbert_d2xy(v - 1, dW, dH) IN xy[2] * dW + xy[1] + 1

\* The error of the v-th visit: the pixel as it was minus what it became;
\* 0 stands for the visits before the first.
ErrorOfVisit(v) ==
    IF v >= 1 THEN dOrig[VisitedCell(v)] - dImg[VisitedCell(v)] ELSE 0

\* (1/4)^(i/31) in units of 10^-9, i = 0 .. 31.
ClaimedWeight(i) == RiemersmaWeights[ERROR_LENGTH - i]

\* The adjustment of the k-th visit, from the errors of the visits before
\* it: entry i = 0 is visit k - 1.
RECURSIVE ClaimedAdjustment(_, _)
ClaimedAdjustment(k, i) ==
    IF i >= ERROR_LENGTH THEN 0
    ELSE RoundedProduct(ErrorOfVisit(k - 1 - i), ClaimedWeight(i))
            + ClaimedAdjustment(k, i + 1)

\* Consecutive weights are in the ratio 4^(1/31) = 1.0457.., the ends 1/4 and 1.
WeightsAreGeometric ==
    /\ ClaimedWeight(0) = 1000000000
    /\ ClaimedWeight(ERROR_LENGTH - 1) = 250000000
    /\ \A i \in 0..(ERROR_LENGTH - 2) :
          ((ClaimedWeight(i) \div 1000) * 1000) \div (ClaimedWeight(i + 1) \div 1000)
             \in {1045, 1046}

C19_RiemersmaHistory ==
    (dAlg = "Riemersma" /\ dStatus \in {"running", "returned"}) =>
        /\ Len(dErrors) = ERROR_LENGTH
        /\ \A j \in 1..ERROR_LENGTH : dErrors[j] = ErrorOfVisit(dPos - ERROR_LENGTH + j)
        /\ WeightsAreGeometric
        /\ dPos >= 1 =>
              dImg[VisitedCell(dPos)] =
                 (IF Max2(0, dOrig[VisitedCell(dPos)] + ClaimedAdjustment(dPos, 0))
                        > U16Max \div 2
                  THEN U16Max ELSE 0)

\* 35 pixels visited: the errors of the first three have left the history.
C19_Witness ==
    /\ dAlg = "Riemersma"
    /\ dStatus = "returned"
    /\ dPos = 35
    /\ dErrors[1] = ErrorOfVisit(4)
    /\ dErrors[ERROR_LENGTH] = ErrorOfVisit(35)
    /\ \E j \in 1..ERROR_LENGTH : dErrors[j] > 0
    /\ \E j \in 1..ERROR_LENGTH : dErrors[j] < 0

(***************************************************************************)
(* C20: a render pass rotates each sample's alpha by -90 degrees exactly   *)
(* once, before any point is inserted into a triangulation or              *)
(* interpolated, and the rotation is not observable outside that pass: the *)
(* samples held by the caller are the same after the call as before it.    *)
(***************************************************************************)
RotatedOnce ==
    rStatus \in {"rendering", "ok", "err", "panicked"} =>
        /\ rDirect = Rotate(rDirectIn)
        /\ rGhost = Rotate(rGhostIn)

CallerSamplesRestored ==
    rStatus \in {"ok", "err", "panicked"} =>
        /\ rDirect = rDirectIn
        /\ rGhost = rGhostIn

C20_RotationOnceAndInvisible == RotatedOnce /\ CallerSamplesRestored

\* The first half alone: from the set-up on, through the pixel tasks and
\* after the return, every sample is its input rotated once.
C20_RotationOnce == RotatedOnce

\* The image is returned and the caller's first direct sample has
\* alpha = 0 where it was 90.
C20_Witness ==
    /\ rStatus = "ok"
    /\ Len(rDirectIn) = 3
    /\ rDirectIn[1].alpha = 90
    /\ rDirect[1].alpha = 0
    /\ \E p \in DonePixels : rImg[p] > 0

(***************************************************************************)
(* C21: floyd_steinberg and atkinson add error only to pixels that are     *)
(* spatial neighbours of the current pixel in the 2D image: a pixel of the *)
(* last column adds nothing to a pixel of the first column of a following  *)
(* row, and a pixel of the first column does not add its below-left share  *)
(* to a pixel of its own row.                                              *)
(***************************************************************************)
\* Column and row of a flat index (from 0).
ColumnOf(i) == i % dW

RowOf(i) == i \div dW

\* The kernels as displacements <<dx, dy>> in the image.
FsKernel2D == {<<1, 0>>, <<-1, 1>>, <<0, 1>>, <<1, 1>>}

AtkinsonKernel2D == {<<1, 0>>, <<2, 0>>, <<-1, 1>>, <<0, 1>>, <<1, 1>>, <<0, 2>>}

\* The pixels other than the current one that the last iteration changed.
ChangedByLast ==
    {j \in 0..(Len(dImg) - 1) : j # LastPixel /\ dImg[j + 1] # dPrev[j + 1]}

Displacement(j) ==
    <<ColumnOf(j) - ColumnOf(LastPixel), RowOf(j) - RowOf(LastPixel)>>

C21_OnlySpatialNeighbours ==
    /\ AfterIteration("FloydSteinberg") =>
          \A j \in ChangedByLast : Displacement(j) \in FsKernel2D
    /\ AfterIteration("Atkinson") =>
          \A j \in ChangedByLast : Displacement(j) \in AtkinsonKernel2D

\* 4x3, the last pixel of row 0 holds 32767: its "right" share of 14336
\* went to the first pixel of row 1.
C21_Witness ==
    /\ AfterIteration("FloydSteinberg")
    /\ dW = 4
    /\ LastPixel = 3
    /\ dPrev[4] = 32767
    /\ dPrev[5] = 0
    /\ dImg[5] = 14336

\* 4x3, the first pixel of row 1: its "below-left" share went to the last
\* pixel of row 1.
C21_WitnessFirstColumn ==
    /\ AfterIteration("FloydSteinberg")
    /\ dW = 4
    /\ LastPixel = 4
    /\ dPrev[5] > 0
    /\ dImg[8] > dPrev[8]


(***************************************************************************)
(* C22: in floyd_steinberg and atkinson, for every input image, adding a   *)
(* diffused error share to a neighbour pixel never overflows the 16-bit    *)
(* pixel range: every intermediate pixel value stays within 0..=65535,     *)
(* with no wrap-around modulo 2^16 and no overflow panic.                  *)
(***************************************************************************)
C22_SharesNeverOverflow ==
    dAlg \in {"FloydSteinberg", "Atkinson"} =>
        /\ ~dOverflowed
        /\ dStatus # "panicked"

\* Release build, the 2x1 image [32767, 65535]: the white pixel received
\* 14336 + 6144 (offsets 1 and width - 1 coincide) and wrapped to 20479.
C22_Witness ==
    /\ dAlg = "FloydSteinberg"
    /\ dBuild = "release"
    /\ dW = 2
    /\ dOrig = <<32767, U16Max>>
    /\ dPos = 1
    /\ dOverflowed
    /\ dImg = <<0, 20479>>

\* Debug build, same image: the `+=` panicked.
C22_WitnessPanic ==
    /\ dAlg = "FloydSteinberg"
    /\ dBuild = "debug"
    /\ dW = 2
    /\ dOrig = <<32767, U16Max>>
    /\ dStatus = "panicked"


(***************************************************************************)
(* C23: in the sequential dithers (floyd_steinberg, atkinson, riemersma),  *)
(* once a pixel has been quantized no later step modifies it: the steps    *)
(* for later pixels change only pixels not yet quantized, for every image  *)
(* width >= 1.                                                             *)
(***************************************************************************)
\* The pixels (flat index from 1) quantized by the dPos iterations so far:
\* the first dPos in raster order, or along the curve for riemersma.
QuantizedPixels ==
    IF dAlg = "Riemersma" THEN {VisitedCell(v) : v \in 1..dPos} ELSE 1..dPos

QuantizedKept ==
    dAlg \in SequentialAlgorithms =>
        \A j \in QuantizedPixels : dImg'[j] = dImg[j]

C23_QuantizedNeverModified == [][QuantizedKept]_vars

\* Width 1, where the kernel entry width - 1 is the current pixel itself:
\* the second iteration added to the third pixel and left the first alone.
C23_Witness ==
    /\ dAlg = "FloydSteinberg"
    /\ dW = 1
    /\ dH >= 3
    /\ dPos = 2
    /\ dImg[1] = Quantize(dOrig[1])
    /\ dPrev[2] = 32767
    /\ dImg[3] > dPrev[3]

\* riemersma has finished a 2x2 image whose first visited pixel changed.
C23_WitnessRiemersma ==
    /\ dAlg = "Riemersma"
    /\ dW = 2
    /\ dPos = 4
    /\ dOrig[VisitedCell(1)] = 32768
    /\ dImg[VisitedCell(1)] = U16Max


(***************************************************************************)
(* C24: for every width >= 1, height >= 1 and every idx with               *)
(* 0 <= idx < width*height - 1, the cells gilbert_d2xy(idx, width, height) *)
(* and gilbert_d2xy(idx + 1, width, height) are neighbouring cells: they   *)
(* are distinct and differ by at most 1 in x and at most 1 in y, so the    *)
(* riemersma traversal never jumps across the image.                       *)
(***************************************************************************)
NeighbouringCells(c1, c2) ==
    /\ c1 # c2
    /\ Abs(c1[1] - c2[1]) <= 1
    /\ Abs(c1[2] - c2[2]) <= 1

C24_ConsecutiveCellsAdjacent ==
    \A i \in 1..(Len(gCells) - 1) : NeighbouringCells(gCells[i], gCells[i + 1])

\* A complete walk of the 4x5 grid, which has a diagonal step: from (2, 3)
\* at idx 13 to (1, 4) at idx 14.
C24_Witness ==
    /\ gWidth = 4
    /\ gHeight = 5
    /\ gIdx = gWidth * gHeight
    /\ gCells[14] = <<2, 3>>
    /\ gCells[15] = <<1, 4>>


(***************************************************************************)
(* C25: for mass > 0 and radius > 6 * mass, throughout calc_periastron the *)
(* bracket satisfies 3.001 * mass <= a <= b <= 3.0 * radius and every      *)
(* iteration halves its width; hence a returned periastron lies in         *)
(* [3.001 * mass, 3.0 * radius] and is strictly greater than 2 * mass, the *)
(* precondition of calc_impact_parameter_from_periastron.                  *)
(***************************************************************************)
RangeStart == (MIN_PERIASTRON_MILLI * pMass) \div 1000

RangeEnd == MAX_PERIASTRON * pRadius

BracketInRange ==
    pStatus # "called" =>
        /\ RangeStart <= pA
        /\ pA <= pB
        /\ pB <= RangeEnd
        /\ pPeriastron.some =>
              /\ pPeriastron.value \in RangeStart..RangeEnd
              /\ pPeriastron.value > 2 * pMass
              /\ pImpact.kind = "fin"

\* An iteration moves one endpoint to the midpoint: the new width is half
\* the old one (to the rounding of the midpoint).
WidthHalved ==
    pIter' = pIter + 1 =>
        /\ pA' = pA \/ pB' = pB
        /\ pA' >= pA
        /\ pB' <= pB
        /\ pB' - pA' \in {(pB - pA) \div 2, (pB - pA) - ((pB - pA) \div 2)}

C25_BracketWithinRangeAndHalved == [](BracketInRange) /\ [][WidthHalved]_vars

\* A periastron returned after both endpoints have moved, one of them on a
\* NaN sign.
C25_Witness ==
    /\ pStatus = "done"
    /\ pPeriastron.some
    /\ pIter >= 3
    /\ pA > RangeStart
    /\ pB < RangeEnd
    /\ pB - pA <= PERIASTRON_TOLERANCE
    /\ pNaNSeen


(***************************************************************************)
(* bin.rs, Command::FluxRange: the list of inclinations                    *)
(*                                                                         *)
(* --start, --end and --step are parsed as f64 with no validation: any     *)
(* number, zero and negatives included, and NaN.  The Vec grows by one     *)
(* element per iteration; memory is finite, so a push beyond VecCapacity   *)
(* elements fails to allocate and the process aborts.                      *)
(***************************************************************************)
VecCapacity == 6

CliStarts == {F64(0), F64(1), F64(3), F64NaN}

CliEnds == {F64(0), F64(2), F64(3), F64NaN}

CliSteps == {F64(-1), F64(0), F64(1), F64(2), F64NaN}

\* `a <= b` on f64: false when either side is NaN.
F64Le(a, b) == ~a.nan /\ ~b.nan /\ a.v <= b.v

\* `a + b` on f64.
F64Add(a, b) == IF a.nan \/ b.nan THEN F64NaN ELSE F64(a.v + b.v)

\* After Cli::parse(): `let mut inclinations = Vec::new(); let mut i = start;`
CliInit ==
    /\ GilbertIdle
    /\ DitherIdle
    /\ BatchIdle
    /\ SolverIdle
    /\ SamplerIdle
    /\ RenderIdle
    /\ cStart \in CliStarts
    /\ cEnd \in CliEnds
    /\ cStep \in CliSteps
    /\ cI = cStart
    /\ cInclinations = <<>>
    /\ cStatus = "parsed"

\* `while i <= end { inclinations.push(Rad::from(Deg(i))); i += step; }`,
\* one iteration.  The angle pushed is kept by its value in degrees.
CliPush ==
    /\ cStatus = "parsed"
    /\ F64Le(cI, cEnd)
    /\ Len(cInclinations) < VecCapacity
    /\ cInclinations' = Append(cInclinations, cI)
    /\ cI' = F64Add(cI, cStep)
    /\ UNCHANGED <<cStart, cEnd, cStep, cStatus>>
    /\ UNCHANGED NotCli

\* The push that finds no memory left for the Vec to grow.
CliAllocFails ==
    /\ cStatus = "parsed"
    /\ F64Le(cI, cEnd)
    /\ Len(cInclinations) = VecCapacity
    /\ cStatus' = "aborted"
    /\ UNCHANGED <<cStart, cEnd, cStep, cI, cInclinations>>
    /\ UNCHANGED NotCli

\* `i <= end` is false: the block yields `inclinations`.
CliListed ==
    /\ cStatus = "parsed"
    /\ ~F64Le(cI, cEnd)
    /\ cStatus' = "listed"
    /\ UNCHANGED <<cStart, cEnd, cStep, cI, cInclinations>>
    /\ UNCHANGED NotCli

CliNext ==
    \/ CliPush
    \/ CliAllocFails
    \/ CliListed

SpecCli == CliInit /\ [][CliNext]_vars

(***************************************************************************)
(* C26: the FluxRange command's enumeration of inclinations (start,        *)
(* start + step, ... while <= end) terminates for every start, end and     *)
(* step accepted on the command line, producing a finite list of           *)
(* inclinations.                                                           *)
(***************************************************************************)
\* The loop is about to run another iteration.
LoopRunsAgain == cStatus = "parsed" /\ F64Le(cI, cEnd)

\* Termination as a variant: the loop never runs out of memory, and each
\* iteration that is followed by another has brought i closer to end.
C26_EnumerationTerminates ==
    /\ cStatus # "aborted"
    /\ (LoopRunsAgain /\ cInclinations # <<>>) =>
          cI.v > cInclinations[Len(cInclinations)].v

\* It does when the step is positive or NaN.
C26_TerminatesForPositiveStep ==
    (cStep.nan \/ cStep.v > 0) => C26_EnumerationTerminates

\* --start 0 --end 3 --step 0: the Vec filled up with 0 degrees.
C26_Witness ==
    /\ cStatus = "aborted"
    /\ cStart = F64(0)
    /\ cEnd = F64(3)
    /\ cStep = F64(0)
    /\ cI = F64(0)
    /\ \A k \in 1..Len(cInclinations) : cInclinations[k] = F64(0)

\* --start 0 --end 3 --step 1: the list 0, 1, 2, 3.
C26_WitnessListed ==
    /\ cStatus = "listed"
    /\ cStep = F64(1)
    /\ cInclinations = <<F64(0), F64(1), F64(2), F64(3)>>


=============================================================================
